---- MODULE Spec2Model ----
(***************************************************************************)
(* PasteMD: the paste workflow (PasteWorkflow.execute and its five         *)
(* branches), the clipboard helpers it calls and the HTML classifier.      *)
(*                                                                         *)
(* Text is a sequence of lines; an HTML payload is a sequence of tokens,   *)
(* one token per character, tag, comment or CF_HTML header line.           *)
(***************************************************************************)
EXTENDS Integers, Sequences, FiniteSets, TLC

(***************************************************************************)
(* Generic sequence helpers.                                               *)
(***************************************************************************)
\* Python's s[a:b] for 0 <= a, b (offsets clamp to the length).
Slice(s, a, b) ==
    LET hi == IF b > Len(s) THEN Len(s) ELSE b
    IN  IF a >= hi THEN <<>> ELSE SubSeq(s, a + 1, hi)

\* Python's `sub in s` on sequences of characters.
Contains(s, sub) ==
    \E i \in 0..(Len(s) - Len(sub)) : SubSeq(s, i + 1, i + Len(sub)) = sub

RECURSIVE SelectTok(_, _)
\* The tokens of s that are not at an index in `drop`, in order.
SelectTok(s, drop) ==
    IF Len(s) = 0 THEN <<>>
    ELSE LET rest == SelectTok(SubSeq(s, 1, Len(s) - 1), drop)
         IN  IF Len(s) \in drop THEN rest ELSE Append(rest, s[Len(s)])

(***************************************************************************)
(* Plain text: a sequence of lines.  A line is blank (only whitespace), a  *)
(* pipe row, a delimiter row, or other text.                               *)
(***************************************************************************)
Plain(s) == [t |-> "text", cells |-> <<s>>]
Row(c) == [t |-> "row", cells |-> c]
Delim(n) == [t |-> "delim", cells |-> [i \in 1..n |-> "---"]]

\* text.strip() == "" : every line is whitespace only (or there is no line).
IsBlankText(text) == \A i \in 1..Len(text) : text[i].t = "blank"

NoTable == <<>>

\* The index of the header row of the first well-formed table of `text`
\* (header row, delimiter row of the same width, one data row of the same
\* width at least), 0 when there is none.
TableStart(text) ==
    LET ok(i) == /\ i + 2 <= Len(text)
                 /\ text[i].t = "row"
                 /\ text[i + 1].t = "delim"
                 /\ Len(text[i + 1].cells) = Len(text[i].cells)
                 /\ text[i + 2].t = "row"
                 /\ Len(text[i + 2].cells) = Len(text[i].cells)
        S == {i \in 1..Len(text) : ok(i)}
    IN  IF S = {} THEN 0 ELSE CHOOSE i \in S : \A j \in S : i <= j

RECURSIVE DataRows(_, _, _)
\* The data rows from line i on, as long as they are rows of width w.
DataRows(text, i, w) ==
    IF i > Len(text) \/ text[i].t # "row" \/ Len(text[i].cells) # w THEN <<>>
    ELSE <<text[i].cells>> \o DataRows(text, i + 1, w)

\* parse_markdown_table: the grid (header, then data rows; the delimiter row
\* is not part of it), or NoTable.
parse_markdown_table(text) ==
    LET i == TableStart(text)
    IN  IF i = 0 THEN NoTable
        ELSE <<text[i].cells>> \o DataRows(text, i + 2, Len(text[i].cells))

\* convert_latex_delimiters: \( x \) becomes $ x $, other lines are kept.
convert_latex_delimiters(text) ==
    [i \in 1..Len(text) |->
        IF text[i] = Plain("\\(x\\)") THEN Plain("$x$") ELSE text[i]]

(***************************************************************************)
(* HTML payloads: sequences of tokens.                                     *)
(*   ch      one character of text (v)                                     *)
(*   tag     an opening tag named v, with src attribute a                  *)
(*   end     a closing tag named v                                         *)
(*   comment the comment <!--v-->, v a word that holds no markup, no tilde *)
(*           and none of the strings the functions below search for        *)
(*   meta    a header line  v:<value>  with its line break "\r\n"; a is    *)
(*           the shape of the value and n its number when int() reads one: *)
(*             "digits"       0000000105   isdigit(), int() reads it       *)
(*             "signed"       -1, +5       not isdigit(), int() reads it   *)
(*             "superscript"  a digit such as the superscript two:         *)
(*                            isdigit(), int() raises ValueError           *)
(*             "other"        abc          neither                         *)
(*             "empty"        nothing after the colon                      *)
(***************************************************************************)
Ch(c) == [k |-> "ch", v |-> c, a |-> "", n |-> 0]
Tag(name) == [k |-> "tag", v |-> name, a |-> "", n |-> 0]
Img(src) == [k |-> "tag", v |-> "img", a |-> src, n |-> 0]
End(name) == [k |-> "end", v |-> name, a |-> "", n |-> 0]
Comment(c) == [k |-> "comment", v |-> c, a |-> "", n |-> 0]
Meta(key, num) == [k |-> "meta", v |-> key, a |-> "digits", n |-> num]
BadMeta(key, shape) == [k |-> "meta", v |-> key, a |-> shape, n |-> 0]


NoHtml == <<>>

\* The least and the greatest element of a non-empty set of numbers.
MinOf(S) == CHOOSE i \in S : \A j \in S : i <= j
MaxOf(S) == CHOOSE i \in S : \A j \in S : i >= j

\* Python's s[a:b] where a and b may be negative (counted from the end).
PySlice(s, a, b) ==
    LET norm(x) == IF x < 0 THEN (IF x + Len(s) < 0 THEN 0 ELSE x + Len(s)) ELSE x
    IN  Slice(s, norm(a), norm(b))

\* The characters str.strip() takes off (str.isspace()).  A character that
\* cannot be written in a string of this module is named by its Python
\* escape; the name stands for the character itself.
WhiteChars ==
    {" ", "\n", "\t", "\r", "\f", "\\x0b", "\\x1c", "\\x1d", "\\x1e", "\\x1f",
     "\\x85", "\\xa0", "\\u1680", "\\u2000", "\\u2001", "\\u2002", "\\u2003",
     "\\u2004", "\\u2005", "\\u2006", "\\u2007", "\\u2008", "\\u2009", "\\u200a",
     "\\u2028", "\\u2029", "\\u202f", "\\u205f", "\\u3000"}

(***************************************************************************)
(* _extract_html_fragment (utils/clipboard.py).                            *)
(***************************************************************************)
\* The header lines that the metadata loop reads: those before the first
\* line whose stripped text starts with a comment.  A line starts after a
\* header line (which ends in its line break) or after a character at
\* which str.splitlines() breaks; a token stands at the start of its line
\* when only characters that str.strip() takes off come before it on that
\* line.  A header line read under its key is one that stands at the start
\* of its line (k.strip() is the key).
MetaIndexes(cf_html) ==
    LET LineBreaks == {"\n", "\r", "\f", "\\x0b", "\\x1c", "\\x1d", "\\x1e",
                       "\\x85", "\\u2028", "\\u2029"}
        LineStart(i) ==
            LET B == {j \in 1..(i - 1) :
                         \/ cf_html[j].k = "meta"
                         \/ cf_html[j].k = "ch" /\ cf_html[j].v \in LineBreaks}
                from == IF B = {} THEN 1 ELSE MaxOf(B) + 1
            IN  \A m \in from..(i - 1) :
                    cf_html[m].k = "ch" /\ cf_html[m].v \in WhiteChars
        C == {i \in 1..Len(cf_html) : cf_html[i].k = "comment" /\ LineStart(i)}
        stop == IF C = {} THEN Len(cf_html) + 1 ELSE MinOf(C)
    IN  {i \in 1..(stop - 1) : cf_html[i].k = "meta" /\ LineStart(i)}

HasMeta(cf_html, key) == \E i \in MetaIndexes(cf_html) : cf_html[i].v = key

\* meta[key]: a later header line overwrites an earlier one.
MetaGet(cf_html, key) ==
    cf_html[MaxOf({i \in MetaIndexes(cf_html) : cf_html[i].v = key})]

\* `sf and sf.isdigit()`
IsDigitMeta(cf_html, key) ==
    HasMeta(cf_html, key) /\ MetaGet(cf_html, key).a \in {"digits", "superscript"}

\* int(value) succeeds: digits, or a sign followed by digits.
IntParses(cf_html, key) ==
    MetaGet(cf_html, key).a \in {"digits", "signed"}

Returned(val) == [raised |-> FALSE, val |-> val]
Raised == [raised |-> TRUE, val |-> <<>>]

\* re.search(r"<!--StartFragment-->(.*)<!--EndFragment-->", cf_html, re.S)
AnchorMatch(cf_html) ==
    LET S == {i \in 1..Len(cf_html) : cf_html[i] = Comment("StartFragment")}
        E == {j \in 1..Len(cf_html) : cf_html[j] = Comment("EndFragment")}
    IN  IF S = {} \/ {j \in E : j > MinOf(S)} = {} THEN [found |-> FALSE, val |-> <<>>]
        ELSE [found |-> TRUE, val |-> Slice(cf_html, MinOf(S), MaxOf(E) - 1)]

\* Mutant of _extract_html_fragment: the comment anchors are tried before
\* the fragment offsets.
_extract_html_fragment_AnchorsFirst(cf_html) ==
    IF AnchorMatch(cf_html).found THEN Returned(AnchorMatch(cf_html).val)
    ELSE IF /\ IsDigitMeta(cf_html, "StartFragment") /\ IsDigitMeta(cf_html, "EndFragment")
            /\ IntParses(cf_html, "StartFragment") /\ IntParses(cf_html, "EndFragment")
    THEN Returned(Slice(cf_html, MetaGet(cf_html, "StartFragment").n,
                                 MetaGet(cf_html, "EndFragment").n))
    ELSE IF \/ HasMeta(cf_html, "StartHTML") /\ ~IntParses(cf_html, "StartHTML")
            \/ HasMeta(cf_html, "EndHTML") /\ ~IntParses(cf_html, "EndHTML")
    THEN Raised
    ELSE Returned(PySlice(cf_html,
            IF HasMeta(cf_html, "StartHTML") THEN MetaGet(cf_html, "StartHTML").n ELSE 0,
            IF HasMeta(cf_html, "EndHTML") THEN MetaGet(cf_html, "EndHTML").n
            ELSE Len(cf_html)))

_extract_html_fragment(cf_html) ==
    IF /\ IsDigitMeta(cf_html, "StartFragment") /\ IsDigitMeta(cf_html, "EndFragment")
       /\ IntParses(cf_html, "StartFragment") /\ IntParses(cf_html, "EndFragment")
    THEN Returned(Slice(cf_html, MetaGet(cf_html, "StartFragment").n,
                                 MetaGet(cf_html, "EndFragment").n))
    ELSE IF AnchorMatch(cf_html).found THEN Returned(AnchorMatch(cf_html).val)
    ELSE IF \/ HasMeta(cf_html, "StartHTML") /\ ~IntParses(cf_html, "StartHTML")
            \/ HasMeta(cf_html, "EndHTML") /\ ~IntParses(cf_html, "EndHTML")
    THEN Raised
    ELSE Returned(PySlice(cf_html,
            IF HasMeta(cf_html, "StartHTML") THEN MetaGet(cf_html, "StartHTML").n ELSE 0,
            IF HasMeta(cf_html, "EndHTML") THEN MetaGet(cf_html, "EndHTML").n
            ELSE Len(cf_html)))

(***************************************************************************)
(* _clean_html_content (utils/clipboard.py), with the parser available.    *)
(***************************************************************************)
\* src.lower().endswith(".svg") on the src values of the model.
SvgSrc == {"x.svg", "X.SVG"}

\* The closing tag of the element opened at i in a parsed document, where
\* every element that is not void has its closing tag: the first </v> after
\* i that does not close an element of the same name opened in between.
ElementEnd(html, i) ==
    LET Opened(a, b) ==
            Cardinality({m \in a..b : html[m].k = "tag" /\ html[m].v = html[i].v})
        Closed(a, b) == Cardinality({m \in a..b : html[m] = End(html[i].v)})
    IN  MinOf({j \in (i + 1)..Len(html) :
                  /\ html[j] = End(html[i].v)
                  /\ Opened(i + 1, j - 1) = Closed(i + 1, j - 1)})

\* soup.find_all("svg") ... decompose(); find_all("img", src=True) ... decompose()
RemovedIndexes(html) ==
    UNION {i..ElementEnd(html, i) :
              i \in {j \in 1..Len(html) : html[j].k = "tag" /\ html[j].v = "svg"}}
    \cup {i \in 1..Len(html) : /\ html[i].k = "tag" /\ html[i].v = "img"
                               /\ html[i].a \in SvgSrc}

Tilde == Ch("~")

\* The index of the first of the two closing tildes of a ~~text~~ that opens
\* at i (pattern ~~([^~]+?)~~), 0 when there is none.  The pattern is
\* applied inside one text node (characters, and header lines left in the
\* fragment), or, when across_tags, to the markup as a string.
StrikeClose(html, i, across_tags) ==
    LET ok(j) == /\ j > i + 2 /\ j + 1 <= Len(html)
                 /\ html[j] = Tilde /\ html[j + 1] = Tilde
                 /\ \A m \in (i + 2)..(j - 1) :
                       (across_tags \/ html[m].k \in {"ch", "meta"}) /\ html[m] # Tilde
        J == {j \in 1..Len(html) : ok(j)}
    IN  IF /\ i + 1 <= Len(html) /\ html[i] = Tilde /\ html[i + 1] = Tilde /\ J # {}
        THEN MinOf(J) ELSE 0

RECURSIVE ConvertStrikeFrom(_, _, _)
ConvertStrikeFrom(html, i, across_tags) ==
    IF i > Len(html) THEN <<>>
    ELSE IF StrikeClose(html, i, across_tags) # 0
    THEN <<Tag("del")>> \o SubSeq(html, i + 2, StrikeClose(html, i, across_tags) - 1)
         \o <<End("del")>>
         \o ConvertStrikeFrom(html, StrikeClose(html, i, across_tags) + 2, across_tags)
    ELSE <<html[i]>> \o ConvertStrikeFrom(html, i + 1, across_tags)

_convert_strikethrough_to_del(html) == ConvertStrikeFrom(html, 1, FALSE)

\* BeautifulSoup(html, "lxml"): the document the parser builds, as markup
\* in which every element is closed where the parser closes it.
\*   - Blanks at the very start (also after leading comments) are skipped.
\*   - Comments before the first element or text stay in front of <html>,
\*     and so does a run of blanks that the parser reports as character
\*     data while no element is open (bs4 is the target of the parser and
\*     takes every string it is given).
\*   - Text met before any element opens an implied <p>.
\*   - A start tag first closes the open elements it cannot stand in
\*     (StartClose: a div, table, li or h2 ends an open p, ...).
\*   - An end tag closes its element and every element opened inside it,
\*     unless one of those has a higher priority (a div, a table part);
\*     an end tag without an open element, or of a void element, is ignored.
\*   - An end tag met before any element or text was opened puts the parser,
\*     which is fed through lxml's feed interface, at the end of the
\*     document: comments and text that begins with a blank are still read,
\*     and any other token ends the parse, so that a fragment that begins
\*     with an end tag followed by an element gives no element at all.
\*   - Elements still open at the end are closed there.
\*   - A string of blanks only becomes a single newline or space.
\* The tables hold the element names that occur in the fragments of this
\* module.
LxmlBody(html) ==
    LET Blanks == {" ", "\n", "\t", "\r"}
        \* bs4's ASCII_SPACES
        AsciiSpaces == Blanks \cup {"\f"}
        \* The control characters among the white space are no characters of
        \* a document: the parser reads one as text and leaves it out.
        ControlChars == {"\f", "\\x0b", "\\x1c", "\\x1d", "\\x1e", "\\x1f"}
        IsControl(i) == html[i].k = "ch" /\ html[i].v \in ControlChars
        Void == {"img"}
        StartClose(n) ==
            CASE n = "p" -> {"p", "h2", "b"}
              [] n = "div" -> {"p"}
              [] n = "h2" -> {"p"}
              [] n = "li" -> {"p", "h2", "li"}
              [] n = "table" -> {"p", "h2", "a"}
              [] n = "tr" -> {"p", "td", "tr"}
              [] n = "td" -> {"p", "td", "span", "font", "a", "b"}
              [] n = "a" -> {"a"}
              [] OTHER -> {}
        Priority(n) ==
            CASE n = "div" -> 150
              [] n = "td" -> 160
              [] n = "tr" -> 170
              [] n = "table" -> 190
              [] OTHER -> 100
        \* Characters, and a header line left in the fragment, are text.
        IsText(i) == html[i].k \in {"ch", "meta"}
        IsBlank(i) == html[i].k = "ch" /\ html[i].v \in Blanks
        \* The text run that holds the token at i has a token after i - 1
        \* that is no blank.
        TextAhead(i) ==
            \E j \in i..Len(html) :
                /\ \A m \in i..j : IsText(m)
                /\ ~IsBlank(j) /\ ~IsControl(j)
        \* The end tags of the elements of stack from its top down to k.
        RECURSIVE CloseDownTo(_, _)
        CloseDownTo(stack, k) ==
            IF Len(stack) < k THEN <<>>
            ELSE <<End(stack[Len(stack)])>>
                 \o CloseDownTo(SubSeq(stack, 1, Len(stack) - 1), k)
        \* How many elements at the top of the stack the start of n closes.
        RECURSIVE AutoClosed(_, _)
        AutoClosed(stack, n) ==
            IF stack # <<>> /\ stack[Len(stack)] \in StartClose(n)
            THEN 1 + AutoClosed(SubSeq(stack, 1, Len(stack) - 1), n)
            ELSE 0
        st0 == [out |-> <<>>, pre |-> <<>>, stack |-> <<>>,
                started |-> FALSE, prolog |-> TRUE, epilog |-> "no"]
        \* At the end of the document (htmlParseTryOrFinish, XML_PARSER_EPILOG)
        \* a comment is read; a run of text that begins with a blank is read
        \* as character data, which ends the call of htmlParseChunk that
        \* holds the markup ("first"), and the closing call ("last") goes
        \* on in the same way until its own run of text; any other token
        \* ends the parse.
        \* The last character of the markup, when it is not read as part of
        \* a run of text, is taken as it is.
        Step(st, i) ==
            LET tok == html[i]
                LeftOut ==
                    /\ IsControl(i)
                    /\ ~(/\ i = Len(html)
                         /\ \/ i = 1 \/ ~IsText(i - 1)
                            \/ st.prolog /\ ~st.started /\ st.epilog = "no")
            IN  IF st.epilog = "over" THEN st
                ELSE IF st.epilog \in {"first_text", "last_text"} /\ IsText(i)
                THEN IF LeftOut THEN st
                     ELSE IF st.started THEN [st EXCEPT !.out = Append(@, tok)]
                     ELSE [st EXCEPT !.pre = Append(@, tok)]
                ELSE IF st.epilog = "last_text" THEN [st EXCEPT !.epilog = "over"]
                ELSE IF st.epilog # "no"
                THEN LET last == st.epilog # "first"
                     IN  IF tok.k = "comment"
                         THEN IF st.started
                              THEN [st EXCEPT !.out = Append(@, tok),
                                              !.epilog = IF last THEN "last" ELSE "first"]
                              ELSE [st EXCEPT !.pre = Append(@, tok),
                                              !.epilog = IF last THEN "last" ELSE "first"]
                         ELSE IF IsBlank(i)
                         THEN LET next == IF last THEN "last_text" ELSE "first_text"
                              IN  IF st.started
                                  THEN [st EXCEPT !.out = Append(@, tok), !.epilog = next]
                                  ELSE IF TextAhead(i)
                                  THEN [st EXCEPT !.out = <<Tag("p"), tok>>,
                                                  !.stack = <<"p">>, !.started = TRUE,
                                                  !.epilog = next]
                                  ELSE [st EXCEPT !.pre = Append(@, tok), !.epilog = next]
                         ELSE [st EXCEPT !.epilog = "over"]
                ELSE IF tok.k = "comment"
                THEN IF st.started THEN [st EXCEPT !.out = Append(@, tok)]
                     ELSE [st EXCEPT !.pre = Append(@, tok)]
                ELSE IF LeftOut THEN [st EXCEPT !.prolog = FALSE]
                ELSE IF IsText(i)
                THEN IF st.started THEN [st EXCEPT !.out = Append(@, tok)]
                     ELSE IF IsBlank(i) /\ st.prolog THEN st
                     ELSE IF IsBlank(i) /\ ~TextAhead(i)
                     THEN [st EXCEPT !.pre = Append(@, tok)]
                     ELSE [st EXCEPT !.out = <<Tag("p"), tok>>, !.stack = <<"p">>,
                                     !.started = TRUE, !.prolog = FALSE]
                ELSE IF tok.k = "tag"
                THEN LET keep == Len(st.stack) - AutoClosed(st.stack, tok.v)
                         left == SubSeq(st.stack, 1, keep)
                     IN  [st EXCEPT
                             !.out = @ \o CloseDownTo(st.stack, keep + 1) \o <<tok>>,
                             !.stack = IF tok.v \in Void THEN left
                                       ELSE Append(left, tok.v),
                             !.started = TRUE, !.prolog = FALSE]
                ELSE IF tok.k = "end"
                THEN LET K == {k \in 1..Len(st.stack) : st.stack[k] = tok.v}
                     IN  IF ~st.started THEN [st EXCEPT !.epilog = "first"]
                         ELSE IF \/ tok.v \in Void \/ K = {}
                            \/ \E m \in (MaxOf(K) + 1)..Len(st.stack) :
                                  Priority(st.stack[m]) > Priority(tok.v)
                         THEN [st EXCEPT !.prolog = FALSE]
                         ELSE [st EXCEPT
                                 !.out = @ \o CloseDownTo(st.stack, MaxOf(K)),
                                 !.stack = SubSeq(@, 1, MaxOf(K) - 1),
                                 !.prolog = FALSE]
                ELSE [st EXCEPT !.prolog = FALSE]
        \* The state after the tokens from i on, from the state st before
        \* them; each step is taken once, on the state the step before it gave.
        RECURSIVE Parse(_, _)
        Parse(st, i) ==
            IF i > Len(html) THEN st
            ELSE CHOOSE last \in {Parse(next, i + 1) : next \in {Step(st, i)}} : TRUE
        \* The last token of the text node of doc that starts at i.
        NodeEnd(doc, i) ==
            MaxOf({j \in i..Len(doc) : \A m \in i..j : doc[m].k \in {"ch", "meta"}})
        \* A text node of blanks only is kept as one newline when it holds
        \* one, else as one space.
        RECURSIVE Strings(_, _)
        Strings(doc, i) ==
            IF i > Len(doc) THEN <<>>
            ELSE IF doc[i].k \notin {"ch", "meta"} THEN <<doc[i]>> \o Strings(doc, i + 1)
            ELSE LET node == SubSeq(doc, i, NodeEnd(doc, i))
                 IN  (IF \E m \in 1..Len(node) : node[m].k # "ch" \/ node[m].v \notin AsciiSpaces
                      THEN node
                      ELSE IF \E m \in 1..Len(node) : node[m].v = "\n"
                           THEN <<Ch("\n")>> ELSE <<Ch(" ")>>)
                     \o Strings(doc, i + Len(node))
        \* The document built when the parser ends in the state `end`: the
        \* elements still open are closed.
        Built(end) ==
            IF ~end.started THEN Strings(end.pre, 1)
            ELSE Strings(end.pre, 1) \o <<Tag("html"), Tag("body")>>
                 \o Strings(end.out \o CloseDownTo(end.stack, 1), 1)
                 \o <<End("body"), End("html")>>
    IN  Built(Parse(st0, 1))

\* What the two re.sub calls of the ImportError branch remove: an svg
\* element up to the first </svg> when there is one, and the img tags whose
\* src ends in .svg.
RegexRemovedIndexes(html) ==
    UNION {i..MinOf({j \in (i + 1)..Len(html) : html[j] = End("svg")}) :
              i \in {m \in 1..Len(html) :
                        /\ html[m].k = "tag" /\ html[m].v = "svg"
                        /\ \E j \in (m + 1)..Len(html) : html[j] = End("svg")}}
    \cup {i \in 1..Len(html) : /\ html[i].k = "tag" /\ html[i].v = "img"
                               /\ html[i].a \in SvgSrc}

\* `parser` says what the installation has: bs4 with lxml; bs4 without lxml,
\* where BeautifulSoup(html, "lxml") raises FeatureNotFound, which is no
\* ImportError; or no bs4, where the regular expressions are used.
\* With the parser, decompose() takes an element out of the tree and
\* leaves the text before it and the text after it as two text nodes;
\* _convert_strikethrough_to_del then works on each text node by itself.
\* str(soup) is put into the minimal shell.
_clean_html_content(html, parser) ==
    IF parser = "lxml"
    THEN LET Decomposed == [k |-> "decomposed", v |-> "", a |-> "", n |-> 0]
             Decompose(soup) ==
                 [i \in 1..Len(soup) |->
                     IF i \in RemovedIndexes(soup) THEN Decomposed ELSE soup[i]]
             \* str(soup): the document, or nothing when none was built
             Str(tree) == SelectTok(tree, {i \in 1..Len(tree) : tree[i] = Decomposed})
         IN  Returned(<<Tag("!DOCTYPE"), Tag("meta")>>
                      \o Str(_convert_strikethrough_to_del(Decompose(LxmlBody(html)))))
    ELSE IF parser = "html.parser" THEN Raised
    ELSE Returned(ConvertStrikeFrom(SelectTok(html, RegexRemovedIndexes(html)), 1, TRUE))

(***************************************************************************)
(* is_plain_html_fragment (utils/html_analyzer.py).                        *)
(***************************************************************************)
SEMANTIC_TAGS ==
    {"p", "h1", "h2", "h3", "h4", "h5", "h6", "ul", "ol", "li", "dl", "dt", "dd",
     "table", "thead", "tbody", "tfoot", "tr", "th", "td", "col", "colgroup",
     "pre", "code", "blockquote", "figure", "figcaption", "math", "section",
     "article", "header", "footer", "aside", "nav", "hr"}

INLINE_WRAPPER_TAGS ==
    {"span", "font", "strong", "em", "b", "i", "u", "sub", "sup", "s", "del",
     "mark", "a"}

\* The backtick character (the name stands for the character itself).
BT == "backtick"

MARKDOWN_HINTS ==
    << <<"\n", "#">>, <<"\n", "#", "#">>, <<"\n", "-", " ">>, <<"\n", "*", " ">>,
       <<"\n", "1", ".">>, <<BT, BT, BT>>, <<"*", "*">>, <<"_", "_">>,
       <<"~", "~">>, <<">", " ">>, <<"$", "$">>, <<"\\", "(">>, <<"\\", ")">>,
       <<"|">>, <<"\n", "-", "-", "-">>, <<"\n", "*", "*", "*">>, <<BT>> >>

\* `not html or not html.strip()`
IsBlankHtml(html) ==
    \A i \in 1..Len(html) : html[i].k = "ch" /\ html[i].v \in WhiteChars

_count_semantic_tags(soup) ==
    Cardinality({i \in 1..Len(soup) : soup[i].k = "tag" /\ soup[i].v \in SEMANTIC_TAGS})

\* body.find_all(True) gives the elements of the document.
_only_contains_inline_wrappers(soup) ==
    \A name \in {soup[i].v : i \in {j \in 1..Len(soup) : soup[j].k = "tag"}} :
        name \in {"html", "head", "body", "meta", "style"} \/ name \in INLINE_WRAPPER_TAGS

RECURSIVE GetTextUpTo(_, _)
\* body.get_text(separator="\n"): the text nodes joined by a newline.  A
\* header line left in the fragment is text: its key stands for the text
\* before its line break.
GetTextUpTo(soup, n) ==
    IF n = 0 THEN <<>>
    ELSE LET prev == GetTextUpTo(soup, n - 1)
             chars == IF soup[n].k = "meta" THEN <<soup[n].v, "\r", "\n">>
                      ELSE <<soup[n].v>>
         IN  IF soup[n].k \notin {"ch", "meta"} THEN prev
             ELSE IF n > 1 /\ soup[n - 1].k \notin {"ch", "meta"} /\ prev # <<>>
                  THEN prev \o <<"\n">> \o chars
                  ELSE prev \o chars

\* str.strip()
Strip(chars) ==
    LET N == {i \in 1..Len(chars) : chars[i] \notin WhiteChars}
    IN  IF N = {} THEN <<>> ELSE SubSeq(chars, MinOf(N), MaxOf(N))

_markdown_hint_score(text) ==
    Cardinality({h \in 1..Len(MARKDOWN_HINTS) : Contains(text, MARKDOWN_HINTS[h])})

HintThreshold == 2

\* What the import of bs4 and the choice of a tree builder can give: lxml
\* (both are in the requirements), html.parser when lxml is missing, or no
\* parser at all when bs4 is missing.
RequiredParser == "lxml"
Installations == {"lxml", "html.parser", "none"}

\* BeautifulSoup(html, "lxml"), or BeautifulSoup(html, "html.parser"), which
\* adds no element: the markup itself, where the end tag of a void element
\* that was opened before is passed over without ending the string it
\* stands in, and a string of blanks only becomes a single newline or space.
Soup(html, parser) ==
    IF parser = "lxml" THEN LxmlBody(html)
    ELSE LET AsciiSpaces == {" ", "\n", "\t", "\r", "\f"}
             \* The end tags from i on that are passed over, when `open` void
             \* elements opened before i have no end tag yet.
             RECURSIVE AlreadyClosed(_, _)
             AlreadyClosed(i, open) ==
                 IF i > Len(html) THEN {}
                 ELSE IF html[i].k = "tag" /\ html[i].v = "img"
                 THEN AlreadyClosed(i + 1, open + 1)
                 ELSE IF html[i] = End("img") /\ open > 0
                 THEN {i} \cup AlreadyClosed(i + 1, open - 1)
                 ELSE AlreadyClosed(i + 1, open)
             NodeEnd(doc, i) ==
                 MaxOf({j \in i..Len(doc) : \A m \in i..j : doc[m].k \in {"ch", "meta"}})
             RECURSIVE Strings(_, _)
             Strings(doc, i) ==
                 IF i > Len(doc) THEN <<>>
                 ELSE IF doc[i].k \notin {"ch", "meta"}
                 THEN <<doc[i]>> \o Strings(doc, i + 1)
                 ELSE LET node == SubSeq(doc, i, NodeEnd(doc, i))
                      IN  (IF \E m \in 1..Len(node) :
                                 node[m].k # "ch" \/ node[m].v \notin AsciiSpaces
                           THEN node
                           ELSE IF \E m \in 1..Len(node) : node[m].v = "\n"
                                THEN <<Ch("\n")>> ELSE <<Ch(" ")>>)
                          \o Strings(doc, i + Len(node))
         IN  Strings(SelectTok(html, AlreadyClosed(1, 0)), 1)

\* The tags of the model whose opening "<name" contains one of the strings
\* the fallback looks for: "<p", "<h1", "<ul", "<table", "<pre", "<code",
\* "<blockquote".
FallbackStructureTags == {"p", "pre", "h1", "ul", "table", "code", "blockquote"}

is_plain_html_fragment(html, parser) ==
    IF IsBlankHtml(html) THEN TRUE
    ELSE IF parser = "none"
    THEN ~\E i \in 1..Len(html) :
             html[i].k = "tag" /\ html[i].v \in FallbackStructureTags
    ELSE LET \* body = soup.body or soup
             Body(soup) ==
                 IF \E i \in 1..Len(soup) : soup[i] = Tag("body")
                 THEN SubSeq(soup, MinOf({i \in 1..Len(soup) : soup[i] = Tag("body")}),
                             Len(soup))
                 ELSE soup
             Text(body) == Strip(GetTextUpTo(body, Len(body)))
             Rules(soup) ==
                 IF _count_semantic_tags(soup) > 0 THEN FALSE
                 ELSE IF _only_contains_inline_wrappers(soup) THEN TRUE
                 ELSE IF Text(Body(soup)) = <<>> THEN TRUE
                 ELSE _markdown_hint_score(Text(Body(soup))) >= HintThreshold
         IN  Rules(Soup(html, parser))

(***************************************************************************)
(* Clipboard contents of the model.                                        *)
(***************************************************************************)
TextEmpty == <<>>
TextBlank == <<[t |-> "blank", cells |-> <<>>]>>
TextHello == <<Plain("hello world")>>
TextBold == <<Plain("**bold**")>>
TextScenarioA ==
    <<Plain("# Title"), Plain("Some text"),
      Row(<<"a", "b">>), Delim(2), Row(<<"1", "2">>)>>

\* <table><tr><td>1</td></tr></table>, selected by the comment anchors.
HtmlTable ==
    <<Comment("StartFragment"), Tag("table"), Tag("tr"), Tag("td"), Ch("1"),
      End("td"), End("tr"), End("table"), Comment("EndFragment")>>

Clip(text, html) == [text |-> text, html |-> html]

Clipboards ==
    LET TextMath == <<Plain("\\(x\\)")>>
        TextTable == <<Row(<<"a", "b">>), Delim(2), Row(<<"1", "2">>)>>
        TextHeaderOnly == <<Row(<<"a", "b">>), Delim(2)>>
        \* <span>**bold**</span>, selected by the fragment offsets.
        HtmlBold ==
            <<Meta("StartFragment", 2), Meta("EndFragment", 9),
              Tag("span"), Ch("*"), Ch("*"), Ch("b"), Ch("*"), Ch("*"), End("span")>>
        \* <p><img src="x.svg"><img src="a.png"></p>: markup without any text.
        HtmlImg == <<Tag("p"), Img("x.svg"), Img("a.png"), End("p")>>
    IN  {Clip(TextEmpty, NoHtml), Clip(TextBlank, NoHtml), Clip(TextHello, NoHtml),
         Clip(TextMath, NoHtml), Clip(TextScenarioA, NoHtml),
         Clip(TextHeaderOnly, NoHtml), Clip(TextBold, HtmlBold),
         Clip(TextTable, HtmlTable), Clip(TextBlank, HtmlImg)}

(***************************************************************************)
(* State.                                                                  *)
(***************************************************************************)
VARIABLES
    clip,                \* the system clipboard: [text, html]
    clipOpen,            \* this process holds the clipboard open
    config,              \* app_state.config (read-only here)
    pandoc_integration,  \* PasteWorkflow.pandoc_integration: "None" or "ready"
    pc,                  \* position inside execute(); "idle" before, "done" after
    frame,               \* the locals of the running execute()
    attempt,             \* completed iterations of the running retry loop
    pending,             \* what a try block does once its finally has run
    notes,               \* notifications emitted by this run
    calls,               \* collaborator calls made by this run
    files,               \* files this run left on disk
    runs,                \* overlapping executions: the locals of each (see Overlap)
    access,              \* overlapping executions: the field accesses made so far
    argument,            \* the argument handed to a pure function (see Functions)
    outcome,             \* what the function returned for it
    runner,              \* HotkeyRunner.start(): its position, app_state's hotkey, the binding
    lock                 \* AppState._lock: its holder, and the call stack of each thread

vars == <<clip, clipOpen, config, pandoc_integration, pc, frame, attempt, pending,
          notes, calls, files, runs, access, argument, outcome, runner, lock>>

\* The variables of a single execute() and the variables of two of the other
\* specifications of this module.
execVars == <<clipOpen, pc, frame, attempt, pending, notes, calls, files>>
overlapVars == <<runs, access>>
functionVars == <<argument, outcome>>

\* DEFAULT_CONFIG["hotkey"], which is also the default of AppState.hotkey_str.
DefaultHotkey == "<ctrl>+b"

\* A HotkeyRunner after __init__, with app_state as it is created: start()
\* has not been called and no hotkey is bound.
Runner0 ==
    [pc |-> "start", hotkey_str |-> DefaultHotkey, config_hotkey |-> DefaultHotkey,
     hotkey |-> "", bound |-> "none", saved |-> "none", notes |-> <<>>,
     config_loader |-> FALSE, notification_manager |-> FALSE,
     enabled |-> TRUE, fired |-> 0]

\* An AppState as it is created: the lock is free (holder 0), running is
\* False and no thread is inside one of its methods.
Lock0 ==
    [holder |-> 0, running |-> FALSE,
     stack |-> [t \in {1, 2} |-> <<>>],
     result |-> [t \in {1, 2} |-> "none"]]

Frame0 ==
    [is_html |-> FALSE, api |-> "wc", target |-> "none", route |-> "execute",
     md_text |-> <<>>, cf_html |-> NoHtml, html_text |-> <<>>, parser |-> "unknown",
     docx_bytes |-> <<>>, inserted |-> FALSE, table_data |-> NoTable]

\* for _ in range(3)
OpenAttempts == 3

(***************************************************************************)
(* Exceptions and handlers.                                                *)
(***************************************************************************)
\* Every exception class the collaborators raise derives from Exception.
ExceptionKinds == {"ClipboardError", "PandocError", "InsertError", "OSError"}
Uncaught == "uncaught"

\* Mutant of ExecuteHandler: the final `except Exception` clause is missing.
ExecuteHandler_NoCatchAll(e) ==
    IF e = "ClipboardError" THEN "clipboard_read_failed"
    ELSE IF e = "PandocError" THEN "md_convert_failed"
    ELSE Uncaught

\* except ClipboardError / PandocError / Exception of execute()
ExecuteHandler(e) ==
    IF e = "ClipboardError" THEN "clipboard_read_failed"
    ELSE IF e = "PandocError" THEN "md_convert_failed"
    ELSE IF e \in ExceptionKinds THEN "convert_failed_see_log"
    ELSE Uncaught

\* the handlers of _handle_html_to_word_flow
HtmlFlowHandler(e) ==
    IF e = "ClipboardError" THEN "html_clipboard_read_failed"
    ELSE IF e = "PandocError" THEN "html_convert_failed"
    ELSE IF e \in ExceptionKinds THEN "html_failed_see_log"
    ELSE Uncaught

\* the handlers of _generate_and_open_document
DocumentHandler(e) ==
    IF e = "PandocError" THEN "md_convert_failed"
    ELSE IF e \in ExceptionKinds THEN "document_failed"
    ELSE Uncaught

\* the handler of _generate_and_open_spreadsheet
SpreadsheetHandler(e) ==
    IF e \in ExceptionKinds THEN "spreadsheet_failed" ELSE Uncaught

\* The message of the innermost handler that catches e raised in `route`.
Handler(route, e) ==
    LET inner == IF route = "html_to_word" THEN HtmlFlowHandler(e)
                 ELSE IF route = "document" THEN DocumentHandler(e)
                 ELSE IF route = "spreadsheet" THEN SpreadsheetHandler(e)
                 ELSE Uncaught
    IN  IF inner # Uncaught THEN inner ELSE ExecuteHandler(e)

Note(ok, msg) == [ok |-> ok, msg |-> msg]
Call(who, arg, res) == [who |-> who, arg |-> arg, res |-> res]

\* notification_manager.notify(...), then execute() returns.
Finish(ok, msg) ==
    /\ notes' = Append(notes, Note(ok, msg))
    /\ pc' = "done"

\* Exception e is raised by code running in `route`.
Raise(route, e) ==
    IF Handler(route, e) = Uncaught
    THEN notes' = notes /\ pc' = "raised"
    ELSE Finish(FALSE, Handler(route, e))

(***************************************************************************)
(* Clipboard text helpers.                                                 *)
(***************************************************************************)
PasteResults == {"ok", "none", "raise"}

\* get_clipboard_text: the text, "" for None; raises ClipboardError.
get_clipboard_text(paste, text) ==
    IF paste = "raise" THEN Raised
    ELSE IF paste = "none" THEN Returned(<<>>)
    ELSE Returned(text)

\* Mutant of is_clipboard_empty: the text is not stripped before the test.
is_clipboard_empty_NoStrip(paste, text) ==
    LET got == get_clipboard_text(paste, text)
    IN  IF got.raised THEN TRUE ELSE got.val = <<>>

\* is_clipboard_empty: a failed read counts as empty.
is_clipboard_empty(paste, text) ==
    LET got == get_clipboard_text(paste, text)
    IN  IF got.raised THEN TRUE
        ELSE got.val = <<>> \/ IsBlankText(got.val)

\* Mutant of Route: the spreadsheet branch is tested after the word branch
\* and without the target test, so a spreadsheet target falls to no_app.
Route_NoExcelBranch(is_html, target, cfg) ==
    IF is_html /\ target \in {"word", "wps"} THEN "html_to_word"
    ELSE IF target \in {"word", "wps"} THEN "word"
    ELSE "no_app"

\* The branch execute() takes (its if / elif chain).
Route(is_html, target, cfg) ==
    IF is_html /\ target \in {"word", "wps"} THEN "html_to_word"
    ELSE IF target \in {"excel", "wps_excel"} /\ cfg.enable_excel THEN "excel"
    ELSE IF target \in {"word", "wps"} THEN "word"
    ELSE "no_app"

Init ==
    /\ clip \in Clipboards
    /\ clipOpen = FALSE
    /\ config \in [keep_file : BOOLEAN, enable_excel : BOOLEAN,
                  auto_open_on_no_app : BOOLEAN]
    /\ pandoc_integration = "None"
    /\ pc = "idle"
    /\ frame = Frame0
    /\ attempt = 0
    /\ pending = "none"
    /\ notes = <<>>
    /\ calls = <<>>
    /\ files = {}
    /\ runs = <<>>
    /\ access = {}
    /\ argument = <<>>
    /\ outcome = <<>>
    /\ runner = Runner0
    /\ lock = Lock0

\* The hotkey fires: a new execute() starts.
Trigger ==
    /\ pc \in {"idle", "done"}
    /\ pc' = "is_clipboard_empty"
    /\ frame' = Frame0
    /\ attempt' = 0
    /\ pending' = "none"
    /\ notes' = <<>>
    /\ calls' = <<>>
    /\ files' = {}
    /\ UNCHANGED <<clip, clipOpen, config, pandoc_integration>>
    /\ UNCHANGED <<overlapVars, functionVars, runner, lock>>

\* Another process puts something else on the clipboard.
ClipboardChange ==
    /\ pc \notin {"idle", "done", "raised"}
    /\ ~clipOpen
    /\ \E c \in Clipboards \ {clip} : clip' = c
    /\ UNCHANGED <<clipOpen, config, pandoc_integration, pc, frame, attempt, pending,
                   notes, calls, files>>
    /\ UNCHANGED <<overlapVars, functionVars, runner, lock>>

\* execute(), step 1: the emptiness check.
IsClipboardEmpty ==
    /\ pc = "is_clipboard_empty"
    /\ \E paste \in PasteResults :
          /\ calls' = Append(calls, Call("get_clipboard_text", <<>>, paste))
          /\ IF is_clipboard_empty(paste, clip.text)
             THEN Finish(FALSE, "clipboard_empty")
             ELSE notes' = notes /\ pc' = "is_clipboard_html"
    /\ UNCHANGED <<clip, clipOpen, config, pandoc_integration, frame, attempt,
                   pending, files>>
    /\ UNCHANGED <<overlapVars, functionVars, runner, lock>>

(***************************************************************************)
(* is_clipboard_html: register the format, then up to three attempts to    *)
(* open the clipboard, check the format and close.                         *)
(***************************************************************************)
\* RegisterClipboardFormat; when pywin32 raises, the ctypes route is taken,
\* which answers False when the format cannot be registered.
IsHtmlRegister ==
    /\ pc = "is_clipboard_html"
    /\ calls' = Append(calls, Call("is_clipboard_html", <<>>, "called"))
    /\ attempt' = 0
    /\ \E r \in {"ok", "raise", "raise_nofmt"} :
          /\ frame' = [frame EXCEPT !.api = IF r = "ok" THEN "wc" ELSE "ctypes",
                                    !.is_html = FALSE]
          /\ pc' = IF r = "raise_nofmt" THEN "detect_active_app" ELSE "ich_open"
    /\ UNCHANGED <<clip, clipOpen, config, pandoc_integration, pending, notes, files>>
    /\ UNCHANGED <<overlapVars, functionVars, runner, lock>>

\* Mutant of IsHtmlOpen: `while True` in place of `for _ in range(3)`.
IsHtmlOpen_NoLimit ==
    /\ pc = "ich_open"
    /\ \E opened \in BOOLEAN :
          IF opened
          THEN clipOpen' = TRUE /\ pc' = "ich_check" /\ attempt' = attempt
          ELSE clipOpen' = clipOpen /\ pc' = "ich_open" /\ attempt' = attempt + 1
    /\ UNCHANGED <<clip, config, pandoc_integration, frame, pending, notes, calls, files>>
    /\ UNCHANGED <<overlapVars, functionVars, runner, lock>>

\* OpenClipboard: it succeeds, or the clipboard is busy and the loop sleeps.
IsHtmlOpen ==
    /\ pc = "ich_open"
    /\ attempt < OpenAttempts
    /\ \E opened \in BOOLEAN :
          IF opened
          THEN clipOpen' = TRUE /\ pc' = "ich_check" /\ attempt' = attempt
          ELSE clipOpen' = clipOpen /\ pc' = "ich_open" /\ attempt' = attempt + 1
    /\ UNCHANGED <<clip, config, pandoc_integration, frame, pending, notes, calls, files>>
    /\ UNCHANGED <<overlapVars, functionVars, runner, lock>>

\* The loop is exhausted: return False.
IsHtmlGiveUp ==
    /\ pc = "ich_open"
    /\ attempt >= OpenAttempts
    /\ frame' = [frame EXCEPT !.is_html = FALSE]
    /\ pc' = "detect_active_app"
    /\ UNCHANGED <<clip, clipOpen, config, pandoc_integration, attempt, pending,
                   notes, calls, files>>
    /\ UNCHANGED <<overlapVars, functionVars, runner, lock>>

\* IsClipboardFormatAvailable(fmt), inside try ... finally; the pywin32 call
\* may raise.
IsHtmlCheck ==
    /\ pc = "ich_check"
    /\ \E r \in {"ok", "raise"} :
          /\ r = "raise" => frame.api = "wc"
          /\ pending' = IF r = "raise" THEN "raise"
                        ELSE IF clip.html # NoHtml THEN "return_true"
                        ELSE "return_false"
    /\ pc' = "ich_close"
    /\ UNCHANGED <<clip, clipOpen, config, pandoc_integration, frame, attempt,
                   notes, calls, files>>
    /\ UNCHANGED <<overlapVars, functionVars, runner, lock>>

\* Mutant of IsHtmlClose: the finally clause does not close the clipboard.
IsHtmlClose_LeavesOpen ==
    /\ pc = "ich_close"
    /\ clipOpen' = clipOpen
    /\ pending' = "none"
    /\ IF pending = "raise"
       THEN /\ attempt' = attempt + 1
            /\ pc' = "ich_open"
            /\ frame' = frame
       ELSE /\ attempt' = attempt
            /\ pc' = "detect_active_app"
            /\ frame' = [frame EXCEPT !.is_html = (pending = "return_true")]
    /\ UNCHANGED <<clip, config, pandoc_integration, notes, calls, files>>
    /\ UNCHANGED <<overlapVars, functionVars, runner, lock>>

\* finally: CloseClipboard(); then the return, or the except clause's sleep.
IsHtmlClose ==
    /\ pc = "ich_close"
    /\ clipOpen' = FALSE
    /\ pending' = "none"
    /\ IF pending = "raise"
       THEN /\ attempt' = attempt + 1
            /\ pc' = "ich_open"
            /\ frame' = frame
       ELSE /\ attempt' = attempt
            /\ pc' = "detect_active_app"
            /\ frame' = [frame EXCEPT !.is_html = (pending = "return_true")]
    /\ UNCHANGED <<clip, config, pandoc_integration, notes, calls, files>>
    /\ UNCHANGED <<overlapVars, functionVars, runner, lock>>

(***************************************************************************)
(* execute(), steps 3 and 4: the active application and the routing.       *)
(***************************************************************************)
DetectActiveApp ==
    /\ pc = "detect_active_app"
    /\ \E t \in {"word", "wps", "excel", "wps_excel", "none"} :
          /\ calls' = Append(calls, Call("detect_active_app", <<>>, t))
          /\ frame' = [frame EXCEPT !.target = t,
                          !.route = IF Route(frame.is_html, t, config) = "html_to_word"
                                    THEN "html_to_word" ELSE "execute"]
          /\ pc' = IF Route(frame.is_html, t, config) = "html_to_word"
                   THEN "get_clipboard_html" ELSE "get_clipboard_text"
    /\ attempt' = 0
    /\ UNCHANGED <<clip, clipOpen, config, pandoc_integration, pending, notes, files>>
    /\ UNCHANGED <<overlapVars, functionVars, runner, lock>>

\* md_text = get_clipboard_text(), then the branch on target and config.
GetClipboardText ==
    /\ pc = "get_clipboard_text"
    /\ \E paste \in PasteResults :
          LET got == get_clipboard_text(paste, clip.text)
              route == Route(frame.is_html, frame.target, config)
          IN  /\ calls' = Append(calls, Call("get_clipboard_text", got.val, paste))
              /\ IF got.raised
                 THEN Raise(frame.route, "ClipboardError") /\ frame' = frame
                 ELSE /\ frame' = [frame EXCEPT !.md_text = got.val, !.route = route]
                      /\ notes' = notes
                      /\ pc' = IF route = "excel" THEN "excel_flow"
                               ELSE IF route = "word" THEN "word_flow"
                               ELSE "no_app_flow"
    /\ UNCHANGED <<clip, clipOpen, config, pandoc_integration, attempt, pending, files>>
    /\ UNCHANGED <<overlapVars, functionVars, runner, lock>>

(***************************************************************************)
(* _handle_excel_flow                                                      *)
(***************************************************************************)
\* Mutant of ExcelInserterOf: the two inserters are swapped.
ExcelInserterOf_Swapped(target) ==
    IF target = "wps_excel" THEN "ms_excel_inserter" ELSE "wps_excel_inserter"

\* if target == "wps_excel": wps_excel_inserter, else ms_excel_inserter
ExcelInserterOf(target) ==
    IF target = "wps_excel" THEN "wps_excel_inserter" ELSE "ms_excel_inserter"

\* parse_markdown_table(md_text); no table: one failure notification.
HandleExcelFlow ==
    /\ pc = "excel_flow"
    /\ LET table_data == parse_markdown_table(frame.md_text)
       IN  /\ calls' = Append(calls, Call("parse_markdown_table", frame.md_text,
                                          IF table_data = NoTable THEN "None" ELSE "grid"))
           /\ frame' = [frame EXCEPT !.table_data = table_data]
           /\ IF table_data = NoTable
              THEN Finish(FALSE, "no_valid_table")
              ELSE notes' = notes /\ pc' = "excel_insert"
    /\ UNCHANGED <<clip, clipOpen, config, pandoc_integration, attempt, pending, files>>
    /\ UNCHANGED <<overlapVars, functionVars, runner, lock>>

InsertResults == {"true", "false", "InsertError", "OSError"}

\* inserter.insert(table_data, keep_format=...) inside try / except InsertError.
ExcelInsert ==
    /\ pc = "excel_insert"
    /\ \E r \in InsertResults :
          /\ calls' = Append(calls, Call(ExcelInserterOf(frame.target),
                                         frame.table_data, r))
          /\ IF r = "true" THEN Finish(TRUE, "table_inserted")
             ELSE IF r = "false" THEN notes' = notes /\ pc' = "done"
             ELSE IF r = "InsertError" THEN Finish(FALSE, "table_insert_failed")
             ELSE Raise(frame.route, r)
    /\ UNCHANGED <<clip, clipOpen, config, pandoc_integration, frame, attempt,
                   pending, files>>
    /\ UNCHANGED <<overlapVars, functionVars, runner, lock>>

(***************************************************************************)
(* get_clipboard_html, called first by _handle_html_to_word_flow.  Every   *)
(* exception inside it leaves as ClipboardError.                           *)
(***************************************************************************)
GetHtmlRegister ==
    /\ pc = "get_clipboard_html"
    /\ attempt' = 0
    /\ \E r \in {"ok", "raise"} :
          /\ calls' = Append(calls, Call("get_clipboard_html", <<>>, r))
          /\ IF r = "raise"
             THEN Raise(frame.route, "ClipboardError")
             ELSE notes' = notes /\ pc' = "gch_open"
    /\ frame' = [frame EXCEPT !.cf_html = NoHtml]
    /\ UNCHANGED <<clip, clipOpen, config, pandoc_integration, pending, files>>
    /\ UNCHANGED <<overlapVars, functionVars, runner, lock>>

GetHtmlOpen ==
    /\ pc = "gch_open"
    /\ attempt < OpenAttempts
    /\ \E opened \in BOOLEAN :
          IF opened
          THEN clipOpen' = TRUE /\ pc' = "gch_read" /\ attempt' = attempt
          ELSE clipOpen' = clipOpen /\ pc' = "gch_open" /\ attempt' = attempt + 1
    /\ UNCHANGED <<clip, config, pandoc_integration, frame, pending, notes, calls, files>>
    /\ UNCHANGED <<overlapVars, functionVars, runner, lock>>

\* if IsClipboardFormatAvailable(fmt): data = GetClipboardData(fmt); break
GetHtmlRead ==
    /\ pc = "gch_read"
    /\ \E r \in {"ok", "raise"} :
          IF r = "raise"
          THEN pending' = "raise" /\ frame' = frame
          ELSE IF clip.html # NoHtml
          THEN pending' = "break" /\ frame' = [frame EXCEPT !.cf_html = clip.html]
          ELSE pending' = "continue" /\ frame' = frame
    /\ pc' = "gch_close"
    /\ UNCHANGED <<clip, clipOpen, config, pandoc_integration, attempt, notes, calls, files>>
    /\ UNCHANGED <<overlapVars, functionVars, runner, lock>>

\* Mutant of GetHtmlClose: CloseClipboard() follows the read instead of
\* standing in a finally clause, so an exception skips it.
GetHtmlClose_NoFinally ==
    /\ pc = "gch_close"
    /\ clipOpen' = (pending = "raise")
    /\ pending' = "none"
    /\ IF pending = "break"
       THEN attempt' = attempt /\ pc' = "gch_fragment"
       ELSE attempt' = attempt + 1 /\ pc' = "gch_open"
    /\ UNCHANGED <<clip, config, pandoc_integration, frame, notes, calls, files>>
    /\ UNCHANGED <<overlapVars, functionVars, runner, lock>>

\* finally: CloseClipboard(); then break, the next iteration, or the sleep.
GetHtmlClose ==
    /\ pc = "gch_close"
    /\ clipOpen' = FALSE
    /\ pending' = "none"
    /\ IF pending = "break"
       THEN attempt' = attempt /\ pc' = "gch_fragment"
       ELSE attempt' = attempt + 1 /\ pc' = "gch_open"
    /\ UNCHANGED <<clip, config, pandoc_integration, frame, notes, calls, files>>
    /\ UNCHANGED <<overlapVars, functionVars, runner, lock>>

\* After the loop: no data raises; else extract the fragment and clean it.
\* `parser` is what `from bs4 import BeautifulSoup` and the lookup of the
\* lxml tree builder give in this installation; the FeatureNotFound of a
\* missing lxml, as every exception raised in get_clipboard_html, leaves it
\* as a ClipboardError (except Exception, line 152).
GetHtmlFragment ==
    /\ \/ pc = "gch_fragment"
       \/ pc = "gch_open" /\ attempt >= OpenAttempts
    /\ LET fragment == _extract_html_fragment(frame.cf_html)
       IN  IF frame.cf_html = NoHtml \/ fragment.raised
           THEN Raise(frame.route, "ClipboardError") /\ frame' = frame
           ELSE \E parser \in Installations :
                   LET cleaned == _clean_html_content(fragment.val, parser)
                   IN  IF cleaned.raised
                       THEN /\ Raise(frame.route, "ClipboardError")
                            /\ frame' = [frame EXCEPT !.parser = parser]
                       ELSE /\ frame' = [frame EXCEPT !.html_text = cleaned.val,
                                                      !.parser = parser]
                            /\ notes' = notes
                            /\ pc' = "ensure_pandoc"
    /\ UNCHANGED <<clip, clipOpen, config, pandoc_integration, attempt, pending,
                   calls, files>>
    /\ UNCHANGED <<overlapVars, functionVars, runner, lock>>

(***************************************************************************)
(* The converter: _ensure_pandoc_integration and the three conversions.    *)
(***************************************************************************)
\* PandocIntegration(pandoc_path) on first use; it raises PandocError.
EnsurePandocIntegration ==
    /\ pc = "ensure_pandoc"
    /\ IF pandoc_integration = "None"
       THEN \E r \in {"ok", "PandocError"} :
               /\ calls' = Append(calls, Call("PandocIntegration", <<>>, r))
               /\ IF r = "ok"
                  THEN pandoc_integration' = "ready" /\ notes' = notes /\ pc' = "convert"
                  ELSE pandoc_integration' = pandoc_integration /\ Raise(frame.route, r)
       ELSE /\ pc' = "convert"
            /\ UNCHANGED <<pandoc_integration, notes, calls>>
    /\ UNCHANGED <<clip, clipOpen, config, frame, attempt, pending, files>>
    /\ UNCHANGED <<overlapVars, functionVars, runner, lock>>

\* Mutant of ConverterOf: the HTML workflow calls the Markdown converter.
ConverterOf_MarkdownForHtml(route) ==
    IF route = "document" THEN "convert_to_docx" ELSE "convert_to_docx_bytes"

ConverterOf(route) ==
    IF route = "html_to_word" THEN "convert_html_to_docx_bytes"
    ELSE IF route = "word" THEN "convert_to_docx_bytes"
    ELSE "convert_to_docx"

Convert ==
    /\ pc = "convert"
    /\ LET input == IF frame.route = "html_to_word" THEN frame.html_text
                    ELSE frame.md_text
           \* What the converter can do: convert_to_docx wraps every failure
           \* in PandocError, the two in-memory conversions let other
           \* exceptions through.
           ConvertResults ==
               IF frame.route = "document" THEN {"ok", "PandocError"}
               ELSE {"ok", "PandocError", "OSError"}
       IN  \E r \in ConvertResults :
              /\ calls' = Append(calls, Call(ConverterOf(frame.route), input, r))
              /\ IF r # "ok"
                 THEN Raise(frame.route, r) /\ frame' = frame /\ files' = files
                 ELSE /\ frame' = [frame EXCEPT !.docx_bytes =
                              <<[fmt |-> IF frame.route = "html_to_word"
                                         THEN "html" ELSE "markdown",
                                 input |-> input]>>]
                      /\ notes' = notes
                      /\ files' = IF frame.route = "document"
                                  THEN files \cup {"generated_docx"} ELSE files
                      /\ pc' = IF frame.route = "document" THEN "open_document"
                               ELSE "insert"
    /\ UNCHANGED <<clip, clipOpen, config, pandoc_integration, attempt, pending>>
    /\ UNCHANGED <<overlapVars, functionVars, runner, lock>>

(***************************************************************************)
(* _handle_word_flow and _handle_html_to_word_flow after the conversion.   *)
(***************************************************************************)
\* md_text = convert_latex_delimiters(md_text)
HandleWordFlow ==
    /\ pc = "word_flow"
    /\ frame' = [frame EXCEPT !.md_text = convert_latex_delimiters(frame.md_text)]
    /\ pc' = "ensure_pandoc"
    /\ UNCHANGED <<clip, clipOpen, config, pandoc_integration, attempt, pending,
                   notes, calls, files>>
    /\ UNCHANGED <<overlapVars, functionVars, runner, lock>>

WordInserterOf(target) == IF target = "word" THEN "word_inserter" ELSE "wps_inserter"

\* _perform_word_insertion: InsertError becomes False.
_perform_word_insertion(r) == r = "true"

\* with EphemeralFile(...): write the bytes, insert.
Insert ==
    /\ pc = "insert"
    /\ \E r \in InsertResults :
          /\ calls' = Append(calls, Call(WordInserterOf(frame.target),
                                         frame.docx_bytes, r))
          /\ IF r \in {"true", "false", "InsertError"}
             THEN /\ frame' = [frame EXCEPT !.inserted = _perform_word_insertion(r)]
                  /\ notes' = notes
                  /\ pc' = "save"
             ELSE Raise(frame.route, r) /\ frame' = frame
    /\ UNCHANGED <<clip, clipOpen, config, pandoc_integration, attempt, pending, files>>
    /\ UNCHANGED <<overlapVars, functionVars, runner, lock>>

\* if config.get("keep_file"): write the DOCX; a failed write is notified by
\* the Markdown flow and only logged by the HTML flow.  The failure is
\* raised by generate_output_path or open, and no file is created, or by
\* f.write after open has created the file, which then stays on disk.
SaveFile ==
    /\ pc = "save"
    /\ IF config.keep_file
       THEN \E w \in {"ok", "OSError"}, created \in BOOLEAN :
               /\ w = "ok" => created
               /\ calls' = Append(calls, Call("write_file", frame.docx_bytes, w))
               /\ files' = IF created THEN files \cup {"saved_docx"} ELSE files
               /\ notes' = IF w # "ok" /\ frame.route = "word"
                           THEN Append(notes, Note(FALSE, "save_failed"))
                           ELSE notes
       ELSE UNCHANGED <<calls, files, notes>>
    /\ pc' = "show_result"
    /\ UNCHANGED <<clip, clipOpen, config, pandoc_integration, frame, attempt, pending>>
    /\ UNCHANGED <<overlapVars, functionVars, runner, lock>>

\* _show_word_result, and step 5 of the HTML flow.
ShowResult ==
    /\ pc = "show_result"
    /\ IF frame.inserted
       THEN Finish(TRUE, IF frame.route = "html_to_word" THEN "html_inserted"
                         ELSE "inserted")
       ELSE Finish(FALSE, "insert_failed")
    /\ UNCHANGED <<clip, clipOpen, config, pandoc_integration, frame, attempt,
                   pending, calls, files>>
    /\ UNCHANGED <<overlapVars, functionVars, runner, lock>>

(***************************************************************************)
(* _handle_no_app_flow and the two generate-and-open branches.             *)
(***************************************************************************)
\* Mutant of NoAppBranch: enable_excel is not consulted.
NoAppBranch_IgnoresEnableExcel(md_text, cfg) ==
    IF parse_markdown_table(md_text) # NoTable THEN "spreadsheet" ELSE "document"

\* The branch of _handle_no_app_flow once auto-open is on.
NoAppBranch(md_text, cfg) ==
    IF parse_markdown_table(md_text) # NoTable /\ cfg.enable_excel
    THEN "spreadsheet" ELSE "document"

\* Mutant of HandleNoAppFlow: the text is parsed before auto_open_on_no_app
\* is looked at.
HandleNoAppFlow_ParsesFirst ==
    /\ pc = "no_app_flow"
    /\ calls' = Append(calls, Call("parse_markdown_table", frame.md_text,
                       IF parse_markdown_table(frame.md_text) = NoTable
                       THEN "None" ELSE "grid"))
    /\ IF ~config.auto_open_on_no_app
       THEN Finish(FALSE, "no_app_detected") /\ frame' = frame
       ELSE /\ frame' = [frame EXCEPT !.route = NoAppBranch(frame.md_text, config)]
            /\ notes' = notes
            /\ pc' = IF NoAppBranch(frame.md_text, config) = "spreadsheet"
                     THEN "generate_spreadsheet" ELSE "generate_document"
    /\ UNCHANGED <<clip, clipOpen, config, pandoc_integration, attempt, pending, files>>
    /\ UNCHANGED <<overlapVars, functionVars, runner, lock>>

HandleNoAppFlow ==
    /\ pc = "no_app_flow"
    /\ IF ~config.auto_open_on_no_app
       THEN /\ Finish(FALSE, "no_app_detected")
            /\ UNCHANGED <<frame, calls>>
       ELSE /\ calls' = Append(calls, Call("parse_markdown_table", frame.md_text,
                              IF parse_markdown_table(frame.md_text) = NoTable
                              THEN "None" ELSE "grid"))
            /\ frame' = [frame EXCEPT !.route = NoAppBranch(frame.md_text, config)]
            /\ notes' = notes
            /\ pc' = IF NoAppBranch(frame.md_text, config) = "spreadsheet"
                     THEN "generate_spreadsheet" ELSE "generate_document"
    /\ UNCHANGED <<clip, clipOpen, config, pandoc_integration, attempt, pending, files>>
    /\ UNCHANGED <<overlapVars, functionVars, runner, lock>>

\* _generate_and_open_document: LaTeX delimiters, then generate_output_path.
GenerateDocument ==
    /\ pc = "generate_document"
    /\ \E r \in {"ok", "OSError"} :
          /\ calls' = Append(calls, Call("generate_output_path", <<>>, r))
          /\ IF r = "ok"
             THEN /\ frame' = [frame EXCEPT
                                 !.md_text = convert_latex_delimiters(frame.md_text)]
                  /\ notes' = notes
                  /\ pc' = "ensure_pandoc"
             ELSE Raise(frame.route, r) /\ frame' = frame
    /\ UNCHANGED <<clip, clipOpen, config, pandoc_integration, attempt, pending, files>>
    /\ UNCHANGED <<overlapVars, functionVars, runner, lock>>

LaunchResults == {"true", "false", "OSError"}

\* AppLauncher.awaken_and_open_document(output_path)
OpenDocument ==
    /\ pc = "open_document"
    /\ \E r \in LaunchResults :
          /\ calls' = Append(calls, Call("awaken_and_open_document", <<>>, r))
          /\ IF r = "true" THEN Finish(TRUE, "document_opened")
             ELSE IF r = "false" THEN Finish(FALSE, "document_open_failed")
             ELSE Raise(frame.route, r)
    /\ UNCHANGED <<clip, clipOpen, config, pandoc_integration, frame, attempt,
                   pending, files>>
    /\ UNCHANGED <<overlapVars, functionVars, runner, lock>>

\* _generate_and_open_spreadsheet: parse again, make the directory and the
\* output path.
GenerateSpreadsheet ==
    /\ pc = "generate_spreadsheet"
    /\ LET table_data == parse_markdown_table(frame.md_text)
       IN  IF table_data = NoTable
           THEN /\ Finish(FALSE, "no_valid_table")
                /\ UNCHANGED <<frame, calls>>
           ELSE \E r \in {"ok", "OSError"} :
                   /\ calls' = Append(calls, Call("generate_output_path", <<>>, r))
                   /\ IF r = "ok"
                      THEN /\ frame' = [frame EXCEPT !.table_data = table_data]
                           /\ notes' = notes
                           /\ pc' = "open_spreadsheet"
                      ELSE Raise(frame.route, r) /\ frame' = frame
    /\ UNCHANGED <<clip, clipOpen, config, pandoc_integration, attempt, pending, files>>
    /\ UNCHANGED <<overlapVars, functionVars, runner, lock>>

\* AppLauncher.generate_and_open_spreadsheet(table_data, output_path, keep_format)
OpenSpreadsheet ==
    /\ pc = "open_spreadsheet"
    /\ \E r \in LaunchResults :
          /\ calls' = Append(calls, Call("generate_and_open_spreadsheet",
                                         frame.table_data, r))
          /\ files' = IF r = "OSError" THEN files ELSE files \cup {"generated_xlsx"}
          /\ IF r = "true" THEN Finish(TRUE, "spreadsheet_opened")
             ELSE IF r = "false" THEN Finish(FALSE, "spreadsheet_open_failed")
             ELSE Raise(frame.route, r)
    /\ UNCHANGED <<clip, clipOpen, config, pandoc_integration, frame, attempt, pending>>
    /\ UNCHANGED <<overlapVars, functionVars, runner, lock>>

Next ==
    \/ Trigger
    \/ ClipboardChange
    \/ IsClipboardEmpty
    \/ IsHtmlRegister
    \/ IsHtmlOpen
    \/ IsHtmlGiveUp
    \/ IsHtmlCheck
    \/ IsHtmlClose
    \/ DetectActiveApp
    \/ GetClipboardText
    \/ HandleExcelFlow
    \/ ExcelInsert
    \/ GetHtmlRegister
    \/ GetHtmlOpen
    \/ GetHtmlRead
    \/ GetHtmlClose
    \/ GetHtmlFragment
    \/ EnsurePandocIntegration
    \/ Convert
    \/ HandleWordFlow
    \/ Insert
    \/ SaveFile
    \/ ShowResult
    \/ HandleNoAppFlow
    \/ GenerateDocument
    \/ OpenDocument
    \/ GenerateSpreadsheet
    \/ OpenSpreadsheet

Spec == Init /\ [][Next]_vars

(***************************************************************************)
(* Overlap: two executions of execute() on the one PasteWorkflow object,   *)
(* each started by a trigger while the other may still be running (spec    *)
(* 5; the controller that owns the object and the debounce manager are not *)
(* part of the source).  Both find text and no HTML format on the          *)
(* clipboard and Word in front, and so take the Markdown-to-Word workflow. *)
(* Each execution has its own locals; the fields of the object and         *)
(* app_state.config are shared.  `access` records which execution read or  *)
(* wrote which shared field since it started.  The file that keep_file     *)
(* writes has a name of its own and is no field of the object.             *)
(***************************************************************************)
Runs == {1, 2}

Access(r, fld, kind) == [run |-> r, fld |-> fld, kind |-> kind]

\* What the rest of the module does not touch in these steps.
OverlapFrame == UNCHANGED <<clip, config, execVars, functionVars, runner, lock>>

InitOverlap ==
    /\ clip = Clip(TextHello, NoHtml)
    /\ clipOpen = FALSE
    /\ config \in [keep_file : BOOLEAN, enable_excel : {TRUE},
                   auto_open_on_no_app : {TRUE}]
    /\ pandoc_integration = "None"
    /\ pc = "idle"
    /\ frame = Frame0
    /\ attempt = 0
    /\ pending = "none"
    /\ notes = <<>>
    /\ calls = <<>>
    /\ files = {}
    /\ runs = [r \in Runs |-> [pc |-> "idle", notes |-> <<>>, began_inside |-> FALSE,
                               inserted |-> FALSE]]
    /\ access = {}
    /\ argument = <<>>
    /\ outcome = <<>>
    /\ runner = Runner0
    /\ lock = Lock0

\* if self.pandoc_integration is None
NeedsInit(seen) == seen = "None"

\* The code that reads or writes a field of the object takes part in the
\* step that follows.
Touch(r, flds, kind) == {Access(r, f, kind) : f \in flds}

\* A trigger starts an execution of execute() whether or not another one is
\* still running (spec 5).
RunTrigger(r) ==
    /\ runs[r].pc \in {"idle", "done"}
    /\ runs' = [runs EXCEPT ![r] =
            [pc |-> "is_clipboard_empty", notes |-> <<>>,
             began_inside |-> \E o \in Runs \ {r} : runs[o].pc = "converting",
             inserted |-> FALSE]]
    /\ access' = {a \in access : a.run # r}
    /\ UNCHANGED pandoc_integration
    /\ OverlapFrame

\* if is_clipboard_empty(): an empty clipboard ends the execution with a
\* notification.
RunIsClipboardEmpty(r) ==
    /\ runs[r].pc = "is_clipboard_empty"
    /\ \E first \in PasteResults :
          IF is_clipboard_empty(first, clip.text)
          THEN /\ runs' = [runs EXCEPT ![r].pc = "done",
                              ![r].notes = Append(@, Note(FALSE, "clipboard_empty"))]
               /\ access' = access \cup Touch(r, {"notification_manager"}, "read")
          ELSE /\ runs' = [runs EXCEPT ![r].pc = "read_config"]
               /\ access' = access
    /\ UNCHANGED pandoc_integration
    /\ OverlapFrame

\* config = app_state.config.  The calls that follow, is_clipboard_html()
\* (which sleeps between its attempts) and detect_active_app(), wait on the
\* system, so the other execution may run between this step and the next.
RunReadConfig(r) ==
    /\ runs[r].pc = "read_config"
    /\ runs' = [runs EXCEPT ![r].pc = "read_clipboard"]
    /\ access' = access \cup Touch(r, {"config"}, "read")
    /\ UNCHANGED pandoc_integration
    /\ OverlapFrame

\* execute() from is_clipboard_html() (no HTML format) and
\* detect_active_app() (Word) to get_clipboard_text(), up to the call of
\* _handle_word_flow.  A ClipboardError ends the execution with a
\* notification.
RunReadClipboard(r) ==
    /\ runs[r].pc = "read_clipboard"
    /\ \E second \in PasteResults :
          IF get_clipboard_text(second, clip.text).raised
          THEN /\ runs' = [runs EXCEPT ![r].pc = "done",
                              ![r].notes = Append(@, Note(FALSE, "clipboard_read_failed"))]
               /\ access' = access \cup Touch(r, {"notification_manager"}, "read")
          ELSE /\ runs' = [runs EXCEPT ![r].pc = "ensure_pandoc"]
               /\ access' = access
    /\ UNCHANGED pandoc_integration
    /\ OverlapFrame

\* _ensure_pandoc_integration: the test of the field.
RunEnsureRead(r) ==
    /\ runs[r].pc = "ensure_pandoc"
    /\ runs' = [runs EXCEPT ![r].pc =
            IF NeedsInit(pandoc_integration) THEN "init_pandoc" ELSE "convert"]
    /\ access' = access \cup Touch(r, {"pandoc_integration"}, "read")
    /\ UNCHANGED pandoc_integration
    /\ OverlapFrame

\* self.pandoc_integration = PandocIntegration(pandoc_path); a PandocError
\* goes to the handler of execute().
RunEnsureInit(r) ==
    /\ runs[r].pc = "init_pandoc"
    /\ \E made \in BOOLEAN :
          IF made
          THEN /\ pandoc_integration' = "ready"
               /\ access' = access \cup Touch(r, {"config"}, "read")
                                   \cup Touch(r, {"pandoc_integration"}, "write")
               /\ runs' = [runs EXCEPT ![r].pc = "convert"]
          ELSE /\ pandoc_integration' = pandoc_integration
               /\ access' = access \cup Touch(r, {"config", "notification_manager"}, "read")
               /\ runs' = [runs EXCEPT ![r].pc = "done",
                              ![r].notes = Append(@, Note(FALSE, "md_convert_failed"))]
    /\ OverlapFrame

\* self.pandoc_integration.convert_to_docx_bytes(...) is entered.
RunConvertCall(r) ==
    /\ runs[r].pc = "convert"
    /\ runs' = [runs EXCEPT ![r].pc = "converting"]
    /\ access' = access \cup Touch(r, {"pandoc_integration", "config"}, "read")
    /\ UNCHANGED pandoc_integration
    /\ OverlapFrame

\* The converter returns the bytes, raises PandocError, or lets another
\* exception through (convert_to_docx_bytes has no try around
\* subprocess.run); the handlers of execute() notify through
\* self.notification_manager.
RunConvertReturn(r) ==
    /\ runs[r].pc = "converting"
    /\ \E res \in {"ok", "PandocError", "OSError"} :
          /\ runs' = [runs EXCEPT
                        ![r].pc = IF res = "ok" THEN "insert" ELSE "done",
                        ![r].notes =
                            IF res = "ok" THEN @
                            ELSE Append(@, Note(FALSE, ExecuteHandler(res)))]
          /\ access' = IF res = "ok" THEN access
                       ELSE access \cup Touch(r, {"notification_manager"}, "read")
    /\ UNCHANGED pandoc_integration
    /\ OverlapFrame

\* _perform_word_insertion: self.word_inserter.insert(docx_path) is entered.
RunInsertCall(r) ==
    /\ runs[r].pc = "insert"
    /\ runs' = [runs EXCEPT ![r].pc = "inserting"]
    /\ access' = access \cup Touch(r, {"config", "word_inserter"}, "read")
    /\ UNCHANGED pandoc_integration
    /\ OverlapFrame

\* The inserter returns or raises.  InsertError becomes False; another
\* exception goes to the last handler of execute(), which notifies.
RunInsertReturn(r) ==
    /\ runs[r].pc = "inserting"
    /\ \E res \in {"true", "false", "InsertError", "OSError"} :
          IF res = "OSError"
          THEN /\ runs' = [runs EXCEPT ![r].pc = "done",
                              ![r].notes = Append(@, Note(FALSE, ExecuteHandler(res)))]
               /\ access' = access \cup Touch(r, {"notification_manager"}, "read")
          ELSE /\ runs' = [runs EXCEPT ![r].pc = "save",
                              ![r].inserted = _perform_word_insertion(res)]
               /\ access' = access
    /\ UNCHANGED pandoc_integration
    /\ OverlapFrame

\* if config.get("keep_file", False): the bytes are written to a new file;
\* a failed write is notified.
RunSave(r) ==
    /\ runs[r].pc = "save"
    /\ IF config.keep_file
       THEN \E w \in {"ok", "OSError"} :
               /\ runs' = [runs EXCEPT ![r].pc = "show_result",
                              ![r].notes = IF w = "ok" THEN @
                                           ELSE Append(@, Note(FALSE, "save_failed"))]
               /\ access' = access \cup Touch(r, {"config"}, "read")
                     \cup (IF w = "ok" THEN {}
                           ELSE Touch(r, {"notification_manager"}, "read"))
       ELSE /\ runs' = [runs EXCEPT ![r].pc = "show_result"]
            /\ access' = access \cup Touch(r, {"config"}, "read")
    /\ UNCHANGED pandoc_integration
    /\ OverlapFrame

\* _show_word_result
RunShowResult(r) ==
    /\ runs[r].pc = "show_result"
    /\ runs' = [runs EXCEPT ![r].pc = "done",
                   ![r].notes = Append(@, IF runs[r].inserted THEN Note(TRUE, "inserted")
                                          ELSE Note(FALSE, "insert_failed"))]
    /\ access' = access \cup Touch(r, {"notification_manager"}, "read")
    /\ UNCHANGED pandoc_integration
    /\ OverlapFrame

NextOverlap ==
    \E r \in Runs :
        \/ RunTrigger(r)
        \/ RunIsClipboardEmpty(r)
        \/ RunReadConfig(r)
        \/ RunReadClipboard(r)
        \/ RunEnsureRead(r)
        \/ RunEnsureInit(r)
        \/ RunConvertCall(r)
        \/ RunConvertReturn(r)
        \/ RunInsertCall(r)
        \/ RunInsertReturn(r)
        \/ RunSave(r)
        \/ RunShowResult(r)

SpecOverlap == InitOverlap /\ [][NextOverlap]_vars

(***************************************************************************)
(* normalize_markdown (utils/md_normalizer.py).                            *)
(*                                                                         *)
(* A Markdown text is a sequence of tokens: a line break ("\n", "\r\n" or  *)
(* "\r") or the content of one non-empty line.  After split('\n') a line   *)
(* is its content, "" for an empty line.                                   *)
(***************************************************************************)
LF == "\n"
CRLF == "\r\n"
Breaks == {LF, CRLF, "\r"}

\* The lines of the model, by what the tests of _get_line_type see in them.
WhitespaceLines == {"  "}
\* "fence" stands for the line made of three backticks.
FenceLines == {"fence"}
HeadingLines == {"# h"}
TableLines == {"| a |"}
HrLines == {"---"}
UnorderedListLines == {"- item"}
OrderedListLines == {"1. x"}
QuoteLines == {"> q"}

\* not line.strip()
IsBlankLine(line) == line = "" \/ line \in WhitespaceLines

\* line.startswith(three backticks)
StartsWithFence(line) == line \in FenceLines

\* md_text.replace('\r\n', '\n').replace('\r', '\n')
ReplaceBreaks(md_text) ==
    [i \in 1..Len(md_text) |-> IF md_text[i] \in Breaks THEN LF ELSE md_text[i]]

RECURSIVE Split(_)
\* text.split('\n')
Split(text) ==
    IF text = <<>> THEN <<"">>
    ELSE LET before == Split(SubSeq(text, 1, Len(text) - 1))
             last == text[Len(text)]
         IN  IF last = LF THEN Append(before, "")
             ELSE [before EXCEPT ![Len(before)] = last]

RECURSIVE JoinLines(_)
\* '\n'.join(result)
JoinLines(lines) ==
    IF lines = <<>> THEN <<>>
    ELSE LET line == lines[Len(lines)]
             piece == IF line = "" THEN <<>> ELSE <<line>>
         IN  IF Len(lines) = 1 THEN piece
             ELSE JoinLines(SubSeq(lines, 1, Len(lines) - 1)) \o <<LF>> \o piece

\* Mutant of _get_line_type: the table test comes before the code-block flag.
_get_line_type_TableFirst(line, in_code_block, in_table) ==
    IF IsBlankLine(line) THEN "empty"
    ELSE IF line \in TableLines THEN "table"
    ELSE IF in_code_block THEN "code"
    ELSE IF StartsWithFence(line) THEN "code"
    ELSE IF line \in HeadingLines THEN "heading"
    ELSE IF line \in HrLines THEN "hr"
    ELSE IF line \in UnorderedListLines THEN "list"
    ELSE IF line \in OrderedListLines THEN "list"
    ELSE IF line \in QuoteLines THEN "quote"
    ELSE "text"

_get_line_type(line, in_code_block, in_table) ==
    IF IsBlankLine(line) THEN "empty"
    ELSE IF in_code_block THEN "code"
    ELSE IF StartsWithFence(line) THEN "code"
    ELSE IF line \in HeadingLines THEN "heading"
    ELSE IF line \in TableLines THEN "table"
    ELSE IF line \in HrLines THEN "hr"
    ELSE IF line \in UnorderedListLines THEN "list"
    ELSE IF line \in OrderedListLines THEN "list"
    ELSE IF line \in QuoteLines THEN "quote"
    ELSE "text"

\* Mutant of _should_add_blank_line: no blank line before a table.
_should_add_blank_line_NoTable(prev_type, current_type) ==
    IF prev_type \in {"start", "empty"} THEN FALSE
    ELSE IF current_type = "empty" THEN FALSE
    ELSE IF current_type = "heading" THEN prev_type # "heading"
    ELSE IF current_type = "code" /\ prev_type # "code" THEN TRUE
    ELSE IF current_type = "list" /\ prev_type # "list" THEN TRUE
    ELSE IF current_type = "quote" /\ prev_type # "quote" THEN TRUE
    ELSE current_type = "hr"

_should_add_blank_line(prev_type, current_type) ==
    IF prev_type \in {"start", "empty"} THEN FALSE
    ELSE IF current_type = "empty" THEN FALSE
    ELSE IF current_type = "heading" THEN prev_type # "heading"
    ELSE IF current_type = "code" /\ prev_type # "code" THEN TRUE
    ELSE IF current_type = "table" /\ prev_type # "table" THEN TRUE
    ELSE IF current_type = "list" /\ prev_type # "list" THEN TRUE
    ELSE IF current_type = "quote" /\ prev_type # "quote" THEN TRUE
    ELSE current_type = "hr"

\* The loop of _should_add_blank_after: whether an odd number of the lines
\* before line `index` start with a fence.
InCodeBefore(lines, index) ==
    Cardinality({j \in 1..(index - 1) : StartsWithFence(lines[j])}) % 2 = 1

\* `index` counts the lines from 1.
_should_add_blank_after(current_type, index, lines) ==
    IF index >= Len(lines) THEN FALSE
    ELSE IF IsBlankLine(lines[index + 1]) THEN FALSE
    ELSE IF current_type = "heading" THEN TRUE
    ELSE IF /\ current_type = "code" /\ StartsWithFence(lines[index])
            /\ ~InCodeBefore(lines, index)
    THEN TRUE
    ELSE current_type = "hr"

\* Mutant of LoopBody: a whitespace-only line is put out as an empty line.
LoopBody_StripsBlankLines(lines, i, st) ==
    LET line == lines[i]
        current_type == _get_line_type(line, st.in_code_block, st.in_table)
        need_blank_before == _should_add_blank_line(st.prev_line_type, current_type)
        r1 == IF /\ need_blank_before /\ st.result # <<>>
                 /\ ~IsBlankLine(st.result[Len(st.result)])
              THEN Append(st.result, "") ELSE st.result
        r2 == Append(r1, IF IsBlankLine(line) THEN "" ELSE line)
        need_blank_after == _should_add_blank_after(current_type, i, lines)
        r3 == IF need_blank_after /\ i + 1 <= Len(lines) /\ ~IsBlankLine(lines[i + 1])
              THEN Append(r2, "") ELSE r2
    IN  [result |-> r3,
         in_code_block |-> IF StartsWithFence(line) THEN ~st.in_code_block
                           ELSE st.in_code_block,
         in_table |-> IF current_type = "table" THEN TRUE
                      ELSE IF st.in_table /\ current_type \notin {"table", "empty"}
                      THEN FALSE ELSE st.in_table,
         prev_line_type |-> IF ~IsBlankLine(line) THEN current_type ELSE "empty"]

\* One iteration of the loop of normalize_markdown, on line i.
LoopBody(lines, i, st) ==
    LET line == lines[i]
        current_type == _get_line_type(line, st.in_code_block, st.in_table)
        need_blank_before == _should_add_blank_line(st.prev_line_type, current_type)
        r1 == IF /\ need_blank_before /\ st.result # <<>>
                 /\ ~IsBlankLine(st.result[Len(st.result)])
              THEN Append(st.result, "") ELSE st.result
        r2 == Append(r1, line)
        need_blank_after == _should_add_blank_after(current_type, i, lines)
        r3 == IF need_blank_after /\ i + 1 <= Len(lines) /\ ~IsBlankLine(lines[i + 1])
              THEN Append(r2, "") ELSE r2
    IN  [result |-> r3,
         in_code_block |-> IF StartsWithFence(line) THEN ~st.in_code_block
                           ELSE st.in_code_block,
         in_table |-> IF current_type = "table" THEN TRUE
                      ELSE IF st.in_table /\ current_type \notin {"table", "empty"}
                      THEN FALSE ELSE st.in_table,
         prev_line_type |-> IF ~IsBlankLine(line) THEN current_type ELSE "empty"]

RECURSIVE LoopUpTo(_, _)
\* The state of the loop after the first n lines.
LoopUpTo(lines, n) ==
    IF n = 0
    THEN [result |-> <<>>, in_code_block |-> FALSE, in_table |-> FALSE,
          prev_line_type |-> "start"]
    ELSE LoopBody(lines, n, LoopUpTo(lines, n - 1))

\* Mutant of CollapseBlankLines: nothing is collapsed.
CollapseBlankLines_Nothing(text) == text

\* Mutant of CollapseBlankLines: three or more newlines become one.
CollapseBlankLines_ToOne(text) ==
    SelectTok(text, {k \in 2..Len(text) :
                        /\ text[k] = LF /\ text[k - 1] = LF
                        /\ \/ k >= 3 /\ text[k - 2] = LF
                           \/ k + 1 <= Len(text) /\ text[k + 1] = LF})

\* re.sub(r'\n{3,}', '\n\n', text): of a run of newlines the first two stay.
CollapseBlankLines(text) ==
    SelectTok(text, {k \in 3..Len(text) :
                        text[k] = LF /\ text[k - 1] = LF /\ text[k - 2] = LF})

\* if '\r\n' in md_text: text.replace('\n', '\r\n')
RestoreBreaks(text, md_text) ==
    IF \E i \in 1..Len(md_text) : md_text[i] = CRLF
    THEN [i \in 1..Len(text) |-> IF text[i] = LF THEN CRLF ELSE text[i]]
    ELSE text

normalize_markdown(md_text) ==
    LET lines == Split(ReplaceBreaks(md_text))
        result == LoopUpTo(lines, Len(lines)).result
    IN  RestoreBreaks(CollapseBlankLines(JoinLines(result)), md_text)

(***************************************************************************)
(* Functions: the pure functions of the module applied to arguments of     *)
(* bounded size.  `argument` is drawn at the start; `outcome` collects     *)
(* what the function returned, and for normalize_markdown what it returned *)
(* for its own output.                                                     *)
(***************************************************************************)
MaxLines == 4

\* The character tokens of a string given as a sequence of characters.
Chars(cs) == [i \in 1..Len(cs) |-> Ch(cs[i])]

RECURSIVE Wrap(_, _)
\* <w1><w2>...inner...</w2></w1>
Wrap(names, inner) ==
    IF names = <<>> THEN inner
    ELSE <<Tag(names[1])>> \o Wrap(Tail(names), inner) \o <<End(names[1])>>

FunctionsFrame ==
    UNCHANGED <<clip, config, pandoc_integration, execVars, overlapVars, runner, lock>>

InitFunctions ==
    LET
        SignedMeta(key, num) == [k |-> "meta", v |-> key, a |-> "signed", n |-> num]

        MdLineValues ==
            {""} \cup WhitespaceLines \cup FenceLines \cup HeadingLines \cup TableLines
            \cup HrLines \cup UnorderedListLines \cup OrderedListLines \cup QuoteLines
            \cup {"text"}

        \* The text whose lines are `lines`, separated by the line break brk.
        MdText(lines, brk) ==
            LET joined == JoinLines(lines)
            IN  [i \in 1..Len(joined) |-> IF joined[i] = LF THEN brk ELSE joined[i]]

        MarkdownTexts ==
            {MdText(lines, brk) :
                lines \in UNION {[1..n -> MdLineValues] : n \in 1..MaxLines}, brk \in Breaks}

        \* The header lines a CF_HTML payload can have for one key: none, a number
        \* in digits, a signed number, and values that are no number.
        HeaderOptions(key) ==
            {<<>>, <<Meta(key, 1)>>, <<Meta(key, 6)>>, <<Meta(key, 99)>>,
             <<SignedMeta(key, -1)>>, <<BadMeta(key, "superscript")>>,
             <<BadMeta(key, "other")>>, <<BadMeta(key, "empty")>>}

        \* <b>x</b>, bare or between the two comment anchors.
        PayloadBodies ==
            {<<Tag("b"), Ch("x"), End("b")>>,
             <<Comment("StartFragment"), Tag("b"), Ch("x"), End("b"), Comment("EndFragment")>>}

        CfHtmlPayloads ==
            {sh \o eh \o sf \o ef \o body :
                sh \in HeaderOptions("StartHTML"), eh \in HeaderOptions("EndHTML"),
                sf \in HeaderOptions("StartFragment"), ef \in HeaderOptions("EndFragment"),
                body \in PayloadBodies}
            \* A comment in the middle of a line, or after blanks at the
            \* start of one, with a header line after it.
            \cup {<<Meta("StartFragment", 5)>> \o mid
                      \o <<Meta("EndFragment", 7), Ch("p"), Ch("q"), Ch("r")>> :
                   mid \in {<<Ch("a"), Comment("x"), Ch("\n")>>,
                            <<Ch(" "), Comment("x"), Ch("\n")>>,
                            <<Ch("a"), Ch("\n"), Comment("x")>>,
                            <<Ch("a"), Ch("\f"), Comment("x")>>,
                            <<Ch("a"), Ch("\\x0b"), Comment("x")>>,
                            <<Ch("a"), Ch("\\x1f"), Comment("x")>>,
                            <<Ch("\\xa0"), Comment("x"), Ch("\n")>>}}
            \* White space that str.strip() removes, or a line break of
            \* str.splitlines(), in front of the header lines.
            \cup {<<Ch(ws), Meta("StartFragment", 3), Meta("EndFragment", 4),
                    Ch("p"), Ch("q")>> :
                   ws \in {"a", " ", "\\xa0", "\f", "\\x1f", "\\u2028"}}

        \* Without and with Markdown hints, and white space only: a blank,
        \* a no-break space, a form feed.
        FragmentTexts ==
            {<<>>, <<" ">>, <<"a">>, <<"*", "*", "b", "*", "*">>,
             <<"*", "*", "a", "~", "~">>, <<"#", " ", "|", " ", "$", "$">>,
             <<"\\xa0">>, <<"\f", " ">>}

        \* Elements put around the text: inline wrappers, elements of the semantic
        \* set, and elements of neither set.
        FragmentWrappers ==
            {<<"span">>, <<"font", "b">>, <<"a">>, <<"table">>, <<"li">>, <<"h2">>,
             <<"span", "table">>, <<"p">>, <<"div">>, <<"img">>, <<"div", "span">>}

        HtmlFragments ==
            {Chars(t) : t \in FragmentTexts}
            \cup {Wrap(w, Chars(t)) : w \in FragmentWrappers, t \in FragmentTexts}
            \cup {Chars(t) \o Wrap(w, Chars(<<"a">>)) : w \in FragmentWrappers,
                                                        t \in FragmentTexts \ {<<>>}}
            \* A fragment cut after the start of an element begins with the
            \* end tag of that element.
            \cup {<<End("span")>> \o Wrap(w, Chars(t)) :
                      w \in FragmentWrappers,
                      t \in {<<"a">>, <<"*", "*", "a", "~", "~">>}}
            \* A header line of the payload left in the fragment, and blanks
            \* that come where no element is open.
            \cup {Wrap(<<"div">>, <<Meta("EndFragment", 0)>>),
                  <<Meta("EndFragment", 0)>> \o Wrap(<<"span">>, Chars(<<"a">>)),
                  <<End("a"), Ch(" ")>>,
                  <<Ch("\f"), Ch(" ")>> \o Wrap(<<"div">>, Chars(<<"a">>)),
                  <<End("span"), Ch(" "), Comment("x"), Ch(" "), Ch("a"), Tag("b")>>}

        Parsers == Installations
    IN
        /\ clip = Clip(TextEmpty, NoHtml)
        /\ clipOpen = FALSE
        /\ config = [keep_file |-> FALSE, enable_excel |-> TRUE, auto_open_on_no_app |-> TRUE]
        /\ pandoc_integration = "None"
        /\ pc = "idle"
        /\ frame = Frame0
        /\ attempt = 0
        /\ pending = "none"
        /\ notes = <<>>
        /\ calls = <<>>
        /\ files = {}
        /\ runs = <<>>
        /\ access = {}
        /\ \/ argument \in {[fn |-> "normalize_markdown", val |-> t, parser |-> "none"] :
                                 t \in MarkdownTexts}
           \/ argument \in {[fn |-> "_extract_html_fragment", val |-> c, parser |-> "none"] :
                                 c \in CfHtmlPayloads}
           \/ argument \in {[fn |-> "is_plain_html_fragment", val |-> h, parser |-> ps] :
                                 h \in HtmlFragments, ps \in Parsers}
           \/ LET pieces == {<<>>, <<Tag("svg"), Ch("x"), End("svg")>>,
                             <<Tag("svg"), Ch("y")>>, <<Img("x.svg")>>, <<Img("X.SVG")>>,
                             <<Img("a.png")>>, <<Tilde, Tilde, Ch("a"), Tilde, Tilde>>,
                             <<Tilde, Tilde>>, <<Tag("b"), Ch("x"), End("b")>>,
                             <<Tilde, Tilde, Ch("a"), Img("x.svg"), Ch("b"),
                               Tilde, Tilde>>,
                             <<Tilde, Tilde, Meta("EndFragment", 0), Tilde, Tilde>>,
                             <<End("a"), Ch(" ")>>, <<Ch("\f"), Ch(" ")>>}
              IN  argument \in {[fn |-> "_clean_html_content", val |-> p1 \o p2 \o p3,
                                 parser |-> ps] :
                                    p1 \in pieces, p2 \in pieces, p3 \in pieces,
                                    ps \in Parsers}
        /\ outcome = <<>>
        /\ runner = Runner0
        /\ lock = Lock0

\* normalize_markdown(md_text), and then normalize_markdown of what it gave.
NormalizeMarkdown ==
    /\ argument.fn = "normalize_markdown"
    /\ Len(outcome) < 2
    /\ outcome' = Append(outcome, normalize_markdown(IF outcome = <<>> THEN argument.val
                                                     ELSE outcome[Len(outcome)]))
    /\ UNCHANGED argument
    /\ FunctionsFrame

\* _extract_html_fragment(cf_html)
ExtractFragment ==
    /\ argument.fn = "_extract_html_fragment"
    /\ outcome = <<>>
    /\ outcome' = <<_extract_html_fragment(argument.val)>>
    /\ UNCHANGED argument
    /\ FunctionsFrame

\* is_plain_html_fragment(html), with the parser this installation has.
ClassifyFragment ==
    /\ argument.fn = "is_plain_html_fragment"
    /\ outcome = <<>>
    /\ outcome' = <<is_plain_html_fragment(argument.val, argument.parser)>>
    /\ UNCHANGED argument
    /\ FunctionsFrame

\* _clean_html_content(html), with the parser this installation has.
CleanHtmlContent ==
    /\ argument.fn = "_clean_html_content"
    /\ outcome = <<>>
    /\ outcome' = <<_clean_html_content(argument.val, argument.parser)>>
    /\ UNCHANGED argument
    /\ FunctionsFrame

NextFunctions ==
    \/ NormalizeMarkdown
    \/ ExtractFragment
    \/ ClassifyFragment
    \/ CleanHtmlContent

SpecFunctions == InitFunctions /\ [][NextFunctions]_vars

(***************************************************************************)
(* HotkeyRunner.start() (presentation/hotkey/run.py).  The validator, the  *)
(* hotkey manager and the configuration loader are collaborators: each     *)
(* call returns or raises.  runner.bound is the hotkey the manager holds,  *)
(* runner.saved the hotkey of the configuration last saved.                *)
(***************************************************************************)
MaxFires == 2

RunnerFrame ==
    UNCHANGED <<clip, config, pandoc_integration, execVars, overlapVars, functionVars, lock>>

InitHotkey ==
    /\ clip = Clip(TextEmpty, NoHtml)
    /\ clipOpen = FALSE
    /\ config = [keep_file |-> FALSE, enable_excel |-> TRUE, auto_open_on_no_app |-> TRUE]
    /\ pandoc_integration = "None"
    /\ pc = "idle"
    /\ frame = Frame0
    /\ attempt = 0
    /\ pending = "none"
    /\ notes = <<>>
    /\ calls = <<>>
    /\ files = {}
    /\ runs = <<>>
    /\ access = {}
    /\ argument = <<>>
    /\ outcome = <<>>
    /\ lock = Lock0
    /\ \E h \in {DefaultHotkey, "<ctrl>+<shift>+v", "<f13>"} :
       \E loader \in BOOLEAN : \E manager \in BOOLEAN : \E enabled \in BOOLEAN :
          runner = [Runner0 EXCEPT !.hotkey_str = h, !.config_hotkey = h,
                                   !.config_loader = loader,
                                   !.notification_manager = manager,
                                   !.enabled = enabled]

\* The notification, when there is a notification manager.
RunnerNotify(msg) ==
    IF runner.notification_manager THEN Append(runner.notes, msg) ELSE runner.notes

\* start(): the hotkey of app_state is validated; an invalid one is
\* replaced by the default in app_state.
StartValidate ==
    /\ runner.pc = "start"
    /\ \E error \in BOOLEAN :
          runner' = IF error
                    THEN [runner EXCEPT !.hotkey_str = DefaultHotkey,
                                        !.config_hotkey = DefaultHotkey,
                                        !.hotkey = DefaultHotkey,
                                        !.pc = "save_corrected"]
                    ELSE [runner EXCEPT !.hotkey = runner.hotkey_str, !.pc = "bind"]
    /\ RunnerFrame

\* After the reset: the configuration is saved when there is a loader (a
\* failure is logged), and the user is told.
StartSaveCorrected ==
    /\ runner.pc = "save_corrected"
    /\ \E save_ok \in BOOLEAN :
          /\ ~runner.config_loader => save_ok
          /\ runner' = [runner EXCEPT
                !.saved = IF runner.config_loader /\ save_ok THEN runner.config_hotkey
                          ELSE runner.saved,
                !.notes = RunnerNotify("hotkey_invalid_default_restored"),
                !.pc = "bind"]
    /\ RunnerFrame

\* try: self.hotkey_manager.bind(hotkey, on_hotkey); except: log, and go on
\* to the default hotkey unless the hotkey is the default.
StartBind ==
    /\ runner.pc = "bind"
    /\ \E bind_ok \in BOOLEAN :
          runner' = IF bind_ok
                    THEN [runner EXCEPT !.bound = runner.hotkey, !.pc = "returned"]
                    ELSE IF runner.hotkey # DefaultHotkey
                    THEN [runner EXCEPT !.pc = "fallback"]
                    ELSE [runner EXCEPT !.pc = "returned"]
    /\ RunnerFrame

\* The inner try: the default is stored in app_state and bound; an
\* exception from the bind goes to the except clause, which gives the
\* critical notification.
StartFallbackBind ==
    /\ runner.pc = "fallback"
    /\ \E bind_ok \in BOOLEAN :
          runner' = IF bind_ok
                    THEN [runner EXCEPT !.hotkey_str = DefaultHotkey,
                                        !.config_hotkey = DefaultHotkey,
                                        !.bound = DefaultHotkey,
                                        !.pc = "fallback_save"]
                    ELSE [runner EXCEPT !.hotkey_str = DefaultHotkey,
                                        !.config_hotkey = DefaultHotkey,
                                        !.notes = RunnerNotify("cannot_bind_hotkey"),
                                        !.pc = "returned"]
    /\ RunnerFrame

\* Still in the inner try: the configuration is saved when there is a
\* loader and the user is told of the fallback; an exception from the save
\* goes to the same except clause.
StartFallbackSave ==
    /\ runner.pc = "fallback_save"
    /\ \E save_ok \in BOOLEAN :
          /\ ~runner.config_loader => save_ok
          /\ runner' = IF save_ok
                       THEN [runner EXCEPT
                               !.saved = IF runner.config_loader
                                         THEN runner.config_hotkey ELSE runner.saved,
                               !.notes = RunnerNotify("bind_failed_default_restored"),
                               !.pc = "returned"]
                       ELSE [runner EXCEPT
                               !.notes = RunnerNotify("cannot_bind_hotkey"),
                               !.pc = "returned"]
    /\ RunnerFrame

\* on_hotkey(): the bound hotkey is pressed; the callback is handed to the
\* debounce manager when the application is enabled.  The hotkey can be
\* pressed as soon as bind has returned, also while start() is still in
\* its fallback path.
OnHotkey ==
    /\ runner.bound # "none"
    /\ runner.fired < MaxFires
    /\ runner' = [runner EXCEPT !.fired = IF runner.enabled THEN @ + 1 ELSE @]
    /\ RunnerFrame

\* restart(): stop() unbinds, then start() runs again.
Restart ==
    /\ runner.pc = "returned"
    /\ runner' = [runner EXCEPT !.bound = "none", !.notes = <<>>, !.hotkey = "",
                                !.fired = 0, !.pc = "start"]
    /\ RunnerFrame

NextHotkey ==
    \/ StartValidate
    \/ StartSaveCorrected
    \/ StartBind
    \/ StartFallbackBind
    \/ StartFallbackSave
    \/ OnHotkey
    \/ Restart

SpecHotkey == InitHotkey /\ [][NextHotkey]_vars

(***************************************************************************)
(* AppState: one threading.Lock guards with_lock, set_running and          *)
(* is_running.  lock.holder is the thread that holds _lock (0: free);      *)
(* lock.stack[t] is the call stack of thread t inside AppState.  The lock  *)
(* is not reentrant: acquiring it waits until it is free, whoever holds it.*)
(***************************************************************************)
LockFrame ==
    UNCHANGED <<clip, config, pandoc_integration, execVars, overlapVars,
                functionVars, runner>>

InitLock ==
    /\ clip = Clip(TextEmpty, NoHtml)
    /\ clipOpen = FALSE
    /\ config = [keep_file |-> FALSE, enable_excel |-> TRUE, auto_open_on_no_app |-> TRUE]
    /\ pandoc_integration = "None"
    /\ pc = "idle"
    /\ frame = Frame0
    /\ attempt = 0
    /\ pending = "none"
    /\ notes = <<>>
    /\ calls = <<>>
    /\ files = {}
    /\ runs = <<>>
    /\ access = {}
    /\ argument = <<>>
    /\ outcome = <<>>
    /\ runner = Runner0
    /\ lock = Lock0

Top(t) == lock.stack[t][Len(lock.stack[t])]

SetTop(t, top) ==
    [lock.stack EXCEPT ![t] = [@ EXCEPT ![Len(@)] = top]]

\* A thread outside AppState calls with_lock(func), set_running(b) or
\* is_running(); the call arrives at its "with self._lock:" statement.
CallAppState(t) ==
    /\ lock.stack[t] = <<>>
    /\ \E op \in {"with_lock", "set_running", "is_running"} :
       \E func \in {"returns", "raises", "set_running", "is_running"} :
       \E b \in BOOLEAN :
          /\ op # "with_lock" => func = "returns"
          /\ op # "set_running" => b = FALSE
          /\ lock' = [lock EXCEPT
                 !.stack[t] = <<[op |-> op, func |-> func, arg |-> b,
                                 pc |-> "enter", value |-> "none"]>>,
                 !.result[t] = "none"]
    /\ LockFrame

\* "with self._lock:" entered: Lock.acquire() returns once the lock is free.
Enter(t) ==
    /\ lock.stack[t] # <<>>
    /\ Top(t).pc = "enter"
    /\ lock.holder = 0
    /\ lock' = [lock EXCEPT !.holder = t,
                            !.stack = SetTop(t, [Top(t) EXCEPT !.pc = "body"])]
    /\ LockFrame

\* with_lock: "return func()" under the lock.  A func that calls
\* set_running or is_running of the same AppState arrives at that method's
\* own "with self._lock:".
with_lock(t) ==
    /\ lock.stack[t] # <<>>
    /\ Top(t).op = "with_lock"
    /\ Top(t).pc = "body"
    /\ \/ /\ Top(t).func \in {"returns", "raises"}
          /\ lock' = [lock EXCEPT !.stack = SetTop(t,
                 [Top(t) EXCEPT !.pc = "exit",
                                !.value = IF Top(t).func = "returns"
                                          THEN "value" ELSE "raised"])]
       \/ /\ Top(t).func \in {"set_running", "is_running"}
          /\ \E b \in BOOLEAN :
                /\ Top(t).func = "is_running" => b = FALSE
                /\ lock' = [lock EXCEPT !.stack[t] = Append(
                       SetTop(t, [Top(t) EXCEPT !.pc = "called"])[t],
                       [op |-> Top(t).func, func |-> "returns", arg |-> b,
                        pc |-> "enter", value |-> "none"])]
    /\ LockFrame

\* set_running: "self.running = running" under the lock.
set_running(t) ==
    /\ lock.stack[t] # <<>>
    /\ Top(t).op = "set_running"
    /\ Top(t).pc = "body"
    /\ lock' = [lock EXCEPT !.running = Top(t).arg,
                            !.stack = SetTop(t, [Top(t) EXCEPT !.pc = "exit"])]
    /\ LockFrame

\* is_running: "return self.running" under the lock.
is_running(t) ==
    /\ lock.stack[t] # <<>>
    /\ Top(t).op = "is_running"
    /\ Top(t).pc = "body"
    /\ lock' = [lock EXCEPT !.stack = SetTop(t,
           [Top(t) EXCEPT !.pc = "exit",
                          !.value = IF lock.running THEN "true" ELSE "false"])]
    /\ LockFrame

\* The with statement is left, by return or by exception: the lock is
\* released and the call returns to its caller, a with_lock body or the
\* thread's code outside AppState.
Exit(t) ==
    /\ lock.stack[t] # <<>>
    /\ Top(t).pc = "exit"
    /\ LET rest == SubSeq(lock.stack[t], 1, Len(lock.stack[t]) - 1)
       IN  lock' = [lock EXCEPT
               !.holder = 0,
               !.stack[t] = IF rest = <<>> THEN rest
                            ELSE [rest EXCEPT ![Len(rest)] =
                                     [@ EXCEPT !.pc = "exit",
                                               !.value = Top(t).value]],
               !.result[t] = IF rest = <<>> THEN Top(t).value ELSE @]
    /\ LockFrame

NextLock ==
    \/ \E t \in {1, 2} : CallAppState(t)
    \/ \E t \in {1, 2} : Enter(t)
    \/ \E t \in {1, 2} : with_lock(t)
    \/ \E t \in {1, 2} : set_running(t)
    \/ \E t \in {1, 2} : is_running(t)
    \/ \E t \in {1, 2} : Exit(t)

SpecLock == InitLock /\ [][NextLock]_vars

(***************************************************************************)
(* Properties of execute().                                                *)
(***************************************************************************)
Called(who) == \E i \in 1..Len(calls) : calls[i].who = who
CallsTo(S) == {i \in 1..Len(calls) : calls[i].who \in S}

Converters == {"convert_html_to_docx_bytes", "convert_to_docx_bytes", "convert_to_docx"}
Inserters == {"word_inserter", "wps_inserter", "ms_excel_inserter", "wps_excel_inserter"}
Launchers == {"awaken_and_open_document", "generate_and_open_spreadsheet"}
SpreadsheetTargets == {"excel", "wps_excel"}
WordTargets == {"word", "wps"}

Failures == {i \in 1..Len(notes) : ~notes[i].ok}
Successes == {i \in 1..Len(notes) : notes[i].ok}

\* The second read of the text (the one the branches work on) succeeded.
TextRead == frame.route \in {"excel", "word", "no_app", "document", "spreadsheet"}

\* C1: every execute() that returns has emitted at least one notification.
C1_NeverZeroNotifications == pc = "done" => Len(notes) >= 1

\* C2: no execute() emits more than one notification, and none emits both a
\* success and a failure notification.
C2_AtMostOneNotification ==
    /\ Len(notes) <= 1
    /\ ~(Failures # {} /\ Successes # {})

\* The HTML that this run read from the clipboard is a plain-Markdown wrapper.
PlainHtmlRead ==
    /\ frame.cf_html # NoHtml
    /\ ~_extract_html_fragment(frame.cf_html).raised
    /\ is_plain_html_fragment(_extract_html_fragment(frame.cf_html).val, RequiredParser)

\* C3: HTML that is only a plain-Markdown wrapper, with a word or wps target,
\* is converted by the Markdown converter and never by the HTML converter.
C3_PlainHtmlGoesToMarkdown ==
    (pc = "done" /\ PlainHtmlRead /\ frame.target \in WordTargets
        /\ CallsTo(Converters) # {})
    => /\ Called("convert_to_docx_bytes")
       /\ ~Called("convert_html_to_docx_bytes")

\* C4: an empty clipboard (blank text, or a text read that fails or gives
\* nothing) ends the run at once with the single failure notification
\* "clipboard empty"; nothing but the text read has been called, no file is
\* written and the clipboard is not open.
C4_EmptyShortCircuit ==
    [][(/\ pc = "is_clipboard_empty"
        /\ pc' # pc
        /\ calls'[1].res # "ok" \/ IsBlankText(clip.text))
        => /\ pc' = "done"
           /\ notes' = <<Note(FALSE, "clipboard_empty")>>
           /\ calls' = <<Call("get_clipboard_text", <<>>, calls'[1].res)>>
           /\ files' = {}
           /\ ~clipOpen']_vars

C4_Witness ==
    /\ pc = "done"
    /\ calls = <<Call("get_clipboard_text", <<>>, "ok")>>
    /\ clip = Clip(TextBlank, NoHtml)
    /\ notes = <<Note(FALSE, "clipboard_empty")>>

\* C5: the emptiness check ends the run as empty exactly when the text is
\* blank and the clipboard holds no HTML.
C5_EmptyIffNoTextAndNoHtml ==
    [][(pc = "is_clipboard_empty" /\ pc' # pc /\ calls'[1].res = "ok")
        => ((pc' = "done") <=> (IsBlankText(clip.text) /\ clip.html = NoHtml))]_vars

\* A collaborator call of this run ended in an exception.
RaisedCalls == {i \in 1..Len(calls) : calls[i].res \in ExceptionKinds \cup {"raise"}}

\* C6 as stated: no exception leaves execute(), and whenever a collaborator
\* raised, the run that returned has emitted a failure notification.
C6_EveryFailureNotified ==
    /\ pc # "raised"
    /\ pc = "done" /\ RaisedCalls # {} => Failures # {}

\* The calls whose exception is only logged: the write of the kept DOCX in
\* the HTML workflow.
LoggedOnly ==
    {i \in RaisedCalls : calls[i].who = "write_file" /\ frame.route = "html_to_word"}

\* C6, amended: no exception (derived from Exception) leaves execute(); the
\* run returns, a later trigger can start, and every collaborator exception
\* other than a failed write of the kept DOCX in the HTML workflow has
\* produced a failure notification.
C6_NoExceptionEscapes ==
    /\ pc # "raised"
    /\ pc = "done" => ENABLED Trigger
    /\ pc = "done" /\ RaisedCalls \ LoggedOnly # {} => Failures # {}

C6_Witness ==
    /\ pc = "done"
    /\ \E i \in RaisedCalls : calls[i].who \in Inserters /\ calls[i].res = "OSError"
    /\ notes = <<Note(FALSE, "convert_failed_see_log")>>

HardClipboardErrors == {"clipboard_read_failed", "html_clipboard_read_failed"}

\* C7: a clipboard that cannot be read is never reported as a clipboard
\* error: a run in which a read of the text failed reports "clipboard
\* empty", and a run in which the HTML could not be fetched goes on to the
\* Markdown converter.
C7_NoHardClipboardError ==
    /\ \A i \in 1..Len(notes) : notes[i].msg \notin HardClipboardErrors
    /\ pc = "done" /\ (\E i \in RaisedCalls : calls[i].who = "get_clipboard_text")
          => notes = <<Note(FALSE, "clipboard_empty")>>
    /\ pc = "done" /\ Called("get_clipboard_html") /\ frame.html_text = <<>>
          => Cardinality(CallsTo({"get_clipboard_text"})) = 2

NoConversionInsertionLaunch == CallsTo(Converters \cup Inserters \cup Launchers) = {}

\* C8 as stated: a spreadsheet target and a text that is no table give the
\* single failure notification "no valid table" and nothing else, for every
\* configuration.
C8_NoTableRejected ==
    (/\ pc = "done" /\ TextRead
     /\ frame.target \in SpreadsheetTargets
     /\ parse_markdown_table(frame.md_text) = NoTable)
    => /\ notes = <<Note(FALSE, "no_valid_table")>>
       /\ NoConversionInsertionLaunch
       /\ files = {}

\* C8, amended: the same whenever enable_excel is on.
C8_NoTableRejectedWhenExcelEnabled ==
    (/\ TextRead
     /\ frame.target \in SpreadsheetTargets
     /\ config.enable_excel
     /\ parse_markdown_table(frame.md_text) = NoTable)
    => /\ frame.route = "excel"
       /\ NoConversionInsertionLaunch
       /\ files = {}
       /\ pc = "done" => notes = <<Note(FALSE, "no_valid_table")>>

C8_Witness ==
    /\ pc = "done"
    /\ frame.target = "wps_excel"
    /\ frame.is_html
    /\ frame.md_text = TextBold
    /\ notes = <<Note(FALSE, "no_valid_table")>>

\* The inserter calls of this run are one call, to the inserter of the
\* target, with the grid parsed from the text.
GridSentToTargetInserter ==
    /\ Cardinality(CallsTo(Inserters)) = 1
    /\ \A i \in CallsTo(Inserters) :
          /\ calls[i].who = (IF frame.target = "wps_excel" THEN "wps_excel_inserter"
                             ELSE "ms_excel_inserter")
          /\ calls[i].arg = parse_markdown_table(frame.md_text)

\* C9 as stated: a spreadsheet target and a text that is a table give
\* ExcelInsert: the grid goes to the inserter of the target and no converter
\* is invoked, with or without HTML on the clipboard.
C9_TableInserted ==
    (/\ pc = "done" /\ TextRead
     /\ frame.target \in SpreadsheetTargets
     /\ parse_markdown_table(frame.md_text) # NoTable)
    => /\ GridSentToTargetInserter
       /\ CallsTo(Converters) = {}

\* C9, amended: the same whenever enable_excel is on.
C9_TableInsertedWhenExcelEnabled ==
    (/\ pc = "done" /\ TextRead
     /\ frame.target \in SpreadsheetTargets
     /\ config.enable_excel
     /\ parse_markdown_table(frame.md_text) # NoTable)
    => /\ frame.route = "excel"
       /\ GridSentToTargetInserter
       /\ CallsTo(Converters \cup Launchers) = {}

C9_Witness ==
    /\ pc = "done"
    /\ frame.target = "wps_excel"
    /\ frame.is_html
    /\ frame.md_text = TextScenarioA
    /\ \E i \in 1..Len(calls) :
          calls[i] = Call("wps_excel_inserter",
                          <<(<<"a", "b">>), (<<"1", "2">>)>>, "true")
    /\ notes = <<Note(TRUE, "table_inserted")>>

IsTable == parse_markdown_table(frame.md_text) # NoTable

\* Every collaborator of this run did its work.
AllSucceeded == \A i \in 1..Len(calls) : calls[i].res \notin ExceptionKinds \cup {"raise", "false"}

\* C10 as stated: no target and auto-open on: a table gives the spreadsheet
\* branch (no converter), anything else the document branch (converter, then
\* the launcher), whatever the rest of the configuration.
C10_NoAppBranchByTableOnly ==
    (pc = "done" /\ TextRead /\ frame.target = "none" /\ config.auto_open_on_no_app)
    => /\ frame.route = (IF IsTable THEN "spreadsheet" ELSE "document")
       /\ IsTable => CallsTo(Converters) = {}

\* C10, amended: a table gives the spreadsheet branch when enable_excel is
\* on; a non-table, or a table with enable_excel off, gives the document
\* branch; exactly one of the two branches runs.
C10_NoAppBranch ==
    (pc = "done" /\ TextRead /\ frame.target = "none" /\ config.auto_open_on_no_app)
    => /\ frame.route = (IF IsTable /\ config.enable_excel THEN "spreadsheet"
                         ELSE "document")
       /\ frame.route = "spreadsheet" =>
             /\ CallsTo(Converters \cup {"awaken_and_open_document"}) = {}
             /\ AllSucceeded => /\ Called("generate_and_open_spreadsheet")
                                /\ notes = <<Note(TRUE, "spreadsheet_opened")>>
       /\ frame.route = "document" =>
             /\ ~Called("generate_and_open_spreadsheet")
             /\ AllSucceeded => /\ Called("convert_to_docx")
                                /\ Called("awaken_and_open_document")
                                /\ notes = <<Note(TRUE, "document_opened")>>

C10_Witness ==
    /\ pc = "done"
    /\ frame.target = "none"
    /\ config.auto_open_on_no_app
    /\ frame.md_text = TextHello
    /\ Called("convert_to_docx")
    /\ notes = <<Note(TRUE, "document_opened")>>

\* C11: no target application and auto-open off: the run is rejected with
\* the single failure notification "no supported app detected"; the table
\* parser, the converters, the inserters and the launchers are not called
\* and no file is written.
C11_NoAppRejected ==
    (frame.route = "no_app" /\ frame.target = "none" /\ ~config.auto_open_on_no_app)
    => /\ CallsTo({"parse_markdown_table"} \cup Converters \cup Inserters
                  \cup Launchers) = {}
       /\ files = {}
       /\ pc \in {"no_app_flow", "done"}
       /\ pc = "done" => notes = <<Note(FALSE, "no_app_detected")>>

C11_Witness ==
    /\ pc = "done"
    /\ frame.target = "none"
    /\ ~config.auto_open_on_no_app
    /\ frame.md_text = TextScenarioA
    /\ notes = <<Note(FALSE, "no_app_detected")>>

\* The HTML that this run read from the clipboard is not a plain-Markdown
\* wrapper.
NonPlainHtmlRead ==
    /\ frame.cf_html # NoHtml
    /\ ~_extract_html_fragment(frame.cf_html).raised
    /\ frame.parser \in Installations
    /\ ~is_plain_html_fragment(_extract_html_fragment(frame.cf_html).val, frame.parser)

\* The fragment of the payload this run read, cleaned as this installation
\* cleans it; `raised` when it cannot.
SanitizedFragment ==
    _clean_html_content(_extract_html_fragment(frame.cf_html).val, frame.parser)

SoftInsertFailures == {"insert_failed", "table_insert_failed"}

\* C13: in every insertion workflow an inserter that answers false and an
\* inserter that raises InsertError end the run the same way: with the
\* single failure notification of a failed insertion.
C13_InsertFailureIsSoftFailure ==
    (pc = "done" /\ \E i \in CallsTo(Inserters) : calls[i].res \in {"false", "InsertError"})
    => /\ Len(notes) >= 1
       /\ ~notes[Len(notes)].ok
       /\ notes[Len(notes)].msg \in SoftInsertFailures

\* C14: the run works on one snapshot of the clipboard: the text that the
\* second read hands to the branches is the text that passed the emptiness
\* check, so it is not blank, and a run whose format check found HTML and
\* whose HTML read opened the clipboard finds the payload.
C14_OneConsistentSnapshot ==
    /\ \A i \in CallsTo({"get_clipboard_text"}) :
          i > 1 /\ calls[i].res = "ok" => ~IsBlankText(calls[i].arg)
    /\ \A i \in CallsTo(Converters) : ~IsBlankText(calls[i].arg)
    /\ (pc = "gch_close" /\ pending = "continue") => ~frame.is_html

ClipboardHeldAt == {"ich_check", "ich_close", "gch_read", "gch_close"}

\* C16: the clipboard is open only between a successful OpenClipboard and
\* the CloseClipboard of the same attempt: it is opened only when closed, by
\* the open step; the close step always closes it, whether the body of the
\* attempt returned, went on or raised; and it is closed at every other
\* position, in particular when either function has ended.
C16_ClipboardScoped ==
    [][/\ clipOpen' => pc' \in ClipboardHeldAt
       /\ (~clipOpen /\ clipOpen') => pc \in {"ich_open", "gch_open"}
       /\ (clipOpen /\ ~clipOpen') => pc \in {"ich_close", "gch_close"}
       /\ (pc \in {"ich_close", "gch_close"} /\ pc' # pc) => (clipOpen /\ ~clipOpen')
       /\ (pc \in {"ich_check", "gch_read"} /\ pc' # pc)
             => (clipOpen' /\ pc' \in {"ich_close", "gch_close"})]_vars

C16_Witness ==
    /\ pc = "gch_open"
    /\ ~clipOpen
    /\ attempt = 2
    /\ frame.cf_html = NoHtml
    /\ Called("get_clipboard_html")

\* C15 as stated: two overlapping executions share no mutable state: a field
\* that one of them writes is neither read nor written by the other.
C15_NoSharedMutableState ==
    (\A r \in Runs : runs[r].pc \notin {"idle", "done"})
    => \A a \in access : \A b \in access :
          (a.run # b.run /\ a.fld = b.fld) => (a.kind = "read" /\ b.kind = "read")

(***************************************************************************)
(* Properties of the pure functions.                                       *)
(***************************************************************************)
\* The text uses at most one kind of line break.
Unmixed(md_text) ==
    Cardinality({md_text[i] : i \in {j \in 1..Len(md_text) : md_text[j] \in Breaks}}) <= 1

\* C17: normalize_markdown is idempotent on texts without mixed line
\* endings: normalizing its own output gives that output again.
C17_NormalizeIdempotent ==
    (/\ argument.fn = "normalize_markdown"
     /\ Unmixed(argument.val)
     /\ Len(outcome) = 2)
    => outcome[2] = outcome[1]

C17_Witness ==
    /\ argument.fn = "normalize_markdown"
    /\ argument.val = <<"text", CRLF, "# h", CRLF, "text">>
    /\ Len(outcome) = 2
    /\ outcome[1] = <<"text", CRLF, CRLF, "# h", CRLF, CRLF, "text">>
    /\ outcome[2] = outcome[1]

TagNames(html) == {html[i].v : i \in {j \in 1..Len(html) : html[j].k = "tag"}}

\* The fragment is inline-wrapper elements around text: it opens with a tag
\* and closes with an end tag, and every element is an inline wrapper.
InlineWrappersAroundText(html) ==
    /\ html # <<>>
    /\ html[1].k = "tag"
    /\ html[Len(html)].k = "end"
    /\ TagNames(html) \subseteq INLINE_WRAPPER_TAGS

\* C18: inline wrappers around text are plain, and a fragment with a table
\* or any other element of the semantic set is not plain, whatever its
\* text, in every installation.
C18_ClassifierBoundary ==
    (argument.fn = "is_plain_html_fragment" /\ outcome # <<>>)
    => /\ InlineWrappersAroundText(argument.val) => outcome[1] = TRUE
       /\ TagNames(argument.val) \cap SEMANTIC_TAGS # {} => outcome[1] = FALSE

BothFragmentOffsets(cf_html) ==
    HasMeta(cf_html, "StartFragment") /\ HasMeta(cf_html, "EndFragment")

\* C19 as stated: when StartFragment and EndFragment both parse as
\* integers, the result is the slice of the payload at those offsets.
C19_IntegerOffsetsSlice ==
    (/\ argument.fn = "_extract_html_fragment" /\ outcome # <<>>
     /\ BothFragmentOffsets(argument.val)
     /\ IntParses(argument.val, "StartFragment")
     /\ IntParses(argument.val, "EndFragment"))
    => outcome[1] = Returned(PySlice(argument.val,
                                     MetaGet(argument.val, "StartFragment").n,
                                     MetaGet(argument.val, "EndFragment").n))

\* Both offsets are made of digits that int() reads.
DigitFragmentOffsets(cf_html) ==
    /\ BothFragmentOffsets(cf_html)
    /\ MetaGet(cf_html, "StartFragment").a = "digits"
    /\ MetaGet(cf_html, "EndFragment").a = "digits"

\* C19, amended: when StartFragment and EndFragment are both made of digits
\* only, the result is the slice at those offsets, whatever anchors and
\* StartHTML/EndHTML values the payload has; otherwise the anchors come next.
C19_DigitOffsetsSlice ==
    (argument.fn = "_extract_html_fragment" /\ outcome # <<>>)
    => /\ DigitFragmentOffsets(argument.val) =>
             outcome[1] = Returned(Slice(argument.val,
                                         MetaGet(argument.val, "StartFragment").n,
                                         MetaGet(argument.val, "EndFragment").n))
       /\ (~DigitFragmentOffsets(argument.val) /\ AnchorMatch(argument.val).found) =>
             outcome[1] = Returned(AnchorMatch(argument.val).val)

C19_Witness ==
    /\ argument.fn = "_extract_html_fragment"
    /\ argument.val = <<BadMeta("StartHTML", "other"), Meta("StartFragment", 1),
                        Meta("EndFragment", 6), Comment("StartFragment"), Tag("b"),
                        Ch("x"), End("b"), Comment("EndFragment")>>
    /\ outcome = <<Returned(<<Meta("StartFragment", 1), Meta("EndFragment", 6),
                             Comment("StartFragment"), Tag("b"), Ch("x")>>)>>

\* C20: _extract_html_fragment returns a string for every payload; no
\* header value makes it raise.
C20_ExtractionNeverRaises ==
    (argument.fn = "_extract_html_fragment" /\ outcome # <<>>) => ~outcome[1].raised

(***************************************************************************)
(* Properties of normalize_markdown's output.  The lines of the output are *)
(* the lines of the input with blank lines added or removed, so the k-th   *)
(* non-blank line of the input is the k-th non-blank line of the output.   *)
(***************************************************************************)
LinesOf(text) == Split(ReplaceBreaks(text))

InLines == LinesOf(argument.val)

OutLines == LinesOf(outcome[1])

Normalized == argument.fn = "normalize_markdown" /\ outcome # <<>>

\* The type the normalizer gives to line i of `lines`.
TypeAt(lines, i) == _get_line_type(lines[i], InCodeBefore(lines, i), FALSE)

OpeningFence(lines, i) == StartsWithFence(lines[i]) /\ ~InCodeBefore(lines, i)

ClosingFence(lines, i) == StartsWithFence(lines[i]) /\ InCodeBefore(lines, i)

Rank(lines, i) == Cardinality({j \in 1..i : ~IsBlankLine(lines[j])})

\* The place in the output of the non-blank line i of the input.
OutPos(i) ==
    CHOOSE p \in 1..Len(OutLines) :
        ~IsBlankLine(OutLines[p]) /\ Rank(OutLines, p) = Rank(InLines, i)

\* Lines i and i+1 of the input, both non-blank.
AdjacentPairs ==
    {i \in 1..(Len(InLines) - 1) : ~IsBlankLine(InLines[i]) /\ ~IsBlankLine(InLines[i + 1])}

\* The output has something between input lines i and i+1.
Separated(i) == OutPos(i + 1) > OutPos(i) + 1

\* C21: a blank line follows every heading and every closing code fence
\* whose next input line is non-blank, and none is added after an opening
\* fence.
C21_BlankAfterHeadingAndClosingFence ==
    Normalized =>
        \A i \in AdjacentPairs :
            /\ TypeAt(InLines, i) = "heading" => Separated(i)
            /\ ClosingFence(InLines, i) => Separated(i)
            /\ OpeningFence(InLines, i) => ~Separated(i)

\* current_type starts a block after a line of prev_type.
StartsBlock(prev_type, current_type) ==
    \/ current_type = "heading" /\ prev_type # "heading"
    \/ current_type = "code" /\ prev_type # "code"
    \/ current_type = "table" /\ prev_type # "table"
    \/ current_type = "list" /\ prev_type # "list"
    \/ current_type = "quote" /\ prev_type # "quote"
    \/ current_type = "hr"

\* C22: in the output every line that starts a block, unless it is the
\* first line, comes immediately after a blank line.
C22_BlankBeforeBlockStart ==
    Normalized =>
        \A p \in 2..Len(OutLines) :
            (/\ ~IsBlankLine(OutLines[p])
             /\ StartsBlock(TypeAt(OutLines, p - 1), TypeAt(OutLines, p)))
            => IsBlankLine(OutLines[p - 1])

C22_Witness ==
    /\ Normalized
    /\ argument.val = <<"text", LF, "| a |", LF, "---", LF, "- item">>
    /\ outcome[1] = <<"text", LF, LF, "| a |", LF, LF, "---", LF, LF, "- item">>

BreaksIn(text) == {text[i] : i \in {j \in 1..Len(text) : text[j] \in Breaks}}

\* C23: the output uses no line-ending style that the input did not use.
C23_LineEndingPreserved ==
    Normalized => BreaksIn(outcome[1]) \subseteq BreaksIn(argument.val)

\* C24: the output never has three or more consecutive line breaks.
C24_NoThreeConsecutiveBreaks ==
    Normalized =>
        \A k \in 3..Len(outcome[1]) :
            ~(/\ outcome[1][k] \in Breaks /\ outcome[1][k - 1] \in Breaks
              /\ outcome[1][k - 2] \in Breaks)

C24_Witness ==
    /\ Normalized
    /\ argument.val = <<"text", CRLF, CRLF, CRLF, "# h">>
    /\ outcome[1] = <<"text", CRLF, CRLF, "# h">>

\* Line i of the input lies between an opening fence and its closing fence.
InsideFence(i) == InCodeBefore(InLines, i) /\ ~StartsWithFence(InLines[i])

\* C25: every non-empty line inside a fenced block is classified as code,
\* needs no blank line before it, and stays next to the code line before it.
C25_CodeFlagFirst ==
    Normalized =>
        \A i \in 1..Len(InLines) :
            (InsideFence(i) /\ ~IsBlankLine(InLines[i])) =>
                LET st == LoopUpTo(InLines, i - 1)
                    current_type == _get_line_type(InLines[i], st.in_code_block, st.in_table)
                IN  /\ st.in_code_block
                    /\ current_type = "code"
                    /\ ~_should_add_blank_line(st.prev_line_type, current_type)
                    /\ (i - 1 \in AdjacentPairs /\ InsideFence(i - 1)) => ~Separated(i - 1)

C25_Witness ==
    /\ Normalized
    /\ argument.val = <<"fence", LF, "text", LF, "| a |", LF, "fence">>
    /\ outcome[1] = <<"fence", LF, LF, "text", LF, "| a |", LF, "fence">>

\* C30: between an opening fence and its closing fence the output has
\* exactly the lines of the input.
C30_FencedContentUnchanged ==
    Normalized =>
        \A a \in 1..Len(InLines) : \A b \in (a + 1)..Len(InLines) :
            (/\ OpeningFence(InLines, a) /\ StartsWithFence(InLines[b])
             /\ \A j \in (a + 1)..(b - 1) : ~StartsWithFence(InLines[j]))
            => SubSeq(OutLines, OutPos(a) + 1, OutPos(b) - 1)
                  = SubSeq(InLines, a + 1, b - 1)

(***************************************************************************)
(* The order of the classifier's rules.                                    *)
(***************************************************************************)
Classified == argument.fn = "is_plain_html_fragment" /\ outcome # <<>>

ShellTags == {"html", "head", "body", "meta", "style"}

\* The characters of the fragment outside its tags, blanks at both ends
\* dropped.
VisibleText(html) == Strip(GetTextUpTo(html, Len(html)))

HintsIn(text) == {h \in 1..Len(MARKDOWN_HINTS) : Contains(text, MARKDOWN_HINTS[h])}

\* C26: blank input is plain; else a semantic element makes the fragment
\* not plain; else inline wrappers only make it plain; otherwise it is
\* plain exactly when its text has two or more hints.
C26_RuleOrder ==
    Classified =>
        LET html == argument.val
            names == TagNames(html)
        IN  outcome[1] =
                IF IsBlankHtml(html) THEN TRUE
                ELSE IF names \cap SEMANTIC_TAGS # {} THEN FALSE
                ELSE IF names \subseteq ShellTags \cup INLINE_WRAPPER_TAGS THEN TRUE
                ELSE Cardinality(HintsIn(VisibleText(html))) >= 2

(***************************************************************************)
(* The retries of is_clipboard_html and the clipboard around collaborator  *)
(* calls.                                                                  *)
(***************************************************************************)
InIsClipboardHtml == pc \in {"ich_open", "ich_check", "ich_close"}

\* The retries are bounded: is_clipboard_html opens the clipboard at most
\* OpenAttempts times, and when every attempt failed it ends with False.
\* (Another process may change the clipboard while it is closed; such a
\* step is not one of the function's.)
RetriesBounded ==
    /\ (InIsClipboardHtml /\ pc' = "ich_open") => attempt' <= OpenAttempts
    /\ (pc = "ich_open" /\ pc' = "ich_check") => attempt < OpenAttempts
    /\ (pc = "ich_open" /\ attempt = OpenAttempts /\ clip' = clip)
          => (pc' = "detect_active_app" /\ ~frame'.is_html)
    /\ (pc = "ich_open" /\ pc' = "detect_active_app") => attempt = OpenAttempts

\* C27 as stated: the retries are bounded, and every attempt whose open
\* succeeded ends the function with the availability answer of that
\* attempt.
C27_SuccessfulOpenEndsRetries ==
    [][/\ RetriesBounded
       /\ pc = "ich_check"
             => pending' = (IF clip.html # NoHtml THEN "return_true" ELSE "return_false")
       /\ pc = "ich_close"
             => (/\ pc' = "detect_active_app"
                 /\ frame'.is_html = (pending = "return_true"))]_vars

\* C27, amended: the retries are bounded; an attempt whose open succeeded
\* and whose availability query answered ends the function with that
\* answer; an availability query that raises, which only the pywin32 route
\* knows, closes the clipboard, uses up the attempt and goes on to the next
\* open.
C27_BoundedRetries ==
    [][/\ RetriesBounded
       /\ (pc = "ich_check" /\ pending' # "raise")
             => pending' = (IF clip.html # NoHtml THEN "return_true" ELSE "return_false")
       /\ (pc = "ich_check" /\ pending' = "raise") => frame.api = "wc"
       /\ (pc = "ich_close" /\ pending # "raise")
             => (/\ pc' = "detect_active_app"
                 /\ frame'.is_html = (pending = "return_true"))
       /\ (pc = "ich_close" /\ pending = "raise")
             => (/\ ~clipOpen'
                 /\ attempt' = attempt + 1
                 /\ pc' = "ich_open"
                 /\ frame' = frame)]_vars

\* The availability query of the last attempt has raised with the clipboard
\* open.
C27_Witness ==
    /\ pc = "ich_close"
    /\ pending = "raise"
    /\ frame.api = "wc"
    /\ clipOpen
    /\ attempt = OpenAttempts - 1
    /\ clip.html # NoHtml

Collaborators == {"detect_active_app"} \cup Converters \cup Inserters \cup Launchers

\* C28: at each call of the active-app detector, a converter, an inserter
\* or a launcher the clipboard is closed, before the call and after it.
C28_ClosedAcrossCollaboratorCalls ==
    [][(/\ Len(calls') = Len(calls) + 1
        /\ calls'[Len(calls')].who \in Collaborators)
       => (~clipOpen /\ ~clipOpen')]_vars

C28_Witness ==
    /\ Called("get_clipboard_html")
    /\ Called("detect_active_app")
    /\ Called("convert_html_to_docx_bytes")
    /\ CallsTo(Inserters) # {}
    /\ ~clipOpen

(***************************************************************************)
(* Sanitization.                                                           *)
(***************************************************************************)
Sanitized == argument.fn = "_clean_html_content" /\ outcome # <<>>

\* C29: the result of sanitization has no svg element and no img element
\* whose src ends in .svg, and is wrapped in the HTML shell, in every
\* installation.
C29_SanitizedAndWrapped ==
    Sanitized =>
        /\ ~outcome[1].raised
        /\ \A i \in 1..Len(outcome[1].val) :
              LET tok == outcome[1].val[i]
              IN  ~(tok.k = "tag" /\ (tok.v = "svg" \/ (tok.v = "img" /\ tok.a \in SvgSrc)))
        /\ Len(outcome[1].val) >= 2
        /\ SubSeq(outcome[1].val, 1, 2) = <<Tag("!DOCTYPE"), Tag("meta")>>

\* The lines of `lines` that are not empty, in order.
NonEmptyLines(lines) == SelectSeq(lines, LAMBDA line : line # "")

\* C31: the non-empty lines of the output are the non-empty lines of the
\* input, line for line and in the same order.
C31_OnlyBlankLinesChange ==
    Normalized => NonEmptyLines(OutLines) = NonEmptyLines(InLines)

C31_Witness ==
    /\ Normalized
    /\ argument.val = <<"# h", LF, "  ", LF, LF, "text">>
    /\ NonEmptyLines(InLines) = <<"# h", "  ", "text">>
    /\ NonEmptyLines(OutLines) = <<"# h", "  ", "text">>

(***************************************************************************)
(* Properties of HotkeyRunner.start().                                     *)
(***************************************************************************)
\* C32: when start() returns with no hotkey bound, a failure notification
\* has been given to the notification manager.
C32_NeverFailsSilently ==
    (/\ runner.pc = "returned"
     /\ runner.notification_manager
     /\ runner.bound = "none")
    => runner.notes # <<>>

\* C33: the critical notification is given only when no hotkey is bound at
\* return, and a hotkey bound at return is the one in app_state.hotkey_str.
C33_CriticalOnlyWhenUnbound ==
    runner.pc = "returned" =>
        /\ (\E i \in 1..Len(runner.notes) : runner.notes[i] = "cannot_bind_hotkey")
              => runner.bound = "none"
        /\ runner.bound # "none" => runner.bound = runner.hotkey_str

(***************************************************************************)
(* Properties of AppState's lock.                                          *)
(***************************************************************************)
\* C34: with_lock(func) always ends and releases the lock, also for a func
\* that calls set_running or is_running of the same AppState: the thread
\* that holds the lock never waits for that lock itself, so the lock is
\* released and no later call is blocked forever.
C34_WithLockReleases ==
    \A t \in {1, 2} :
        lock.holder = t => Top(t).pc # "enter"

====
